---- MODULE Spec2Model ----
(***************************************************************************)
(* Record-set reconciliation of one DNS record against the Netcup zone     *)
(* service: the reconciler (provider/dns_record.go) and the session-scoped *)
(* client (provider/netcup_client.go).  Every backend call is one step of  *)
(* the calling reconciler operation, so that callers that do not serialise *)
(* their operations interleave at the granularity of HTTP round trips.     *)
(*                                                                         *)
(* Go strings are sequences of one-character strings, so that Sprintf,     *)
(* Contains, SplitN, ToLower and ToUpper are computed, not assumed.        *)
(***************************************************************************)
EXTENDS Integers, Sequences, FiniteSets, TLC

-----------------------------------------------------------------------------
(* Bounds of the model *)

\* reconciler calls started in one run
MaxOps == 2
\* backend calls that fail (transport error, non-success status or
\* malformed response) in one run of serialised callers
MaxFaults == 1
\* length of the strings the pure functions are applied to
MaxLen == 4
\* records of the set CreateDnsRecord fetches after its submit
MaxRecords == 3

-----------------------------------------------------------------------------
(* Texts of the error messages, dns_record.go and netcup_client.go *)

TxtLoginFailed ==
    <<"l","o","g","i","n"," ","f","a","i","l","e","d",":"," ">>
TxtLogin2011 ==
    <<"l","o","g","i","n"," ","f","a","i","l","e","d",":"," ","I","n","v","a","l","i","d"," ","A","P","I"," ","c","r","e","d","e","n","t","i","a","l","s"," ","(","A","P","I"," ","k","e","y"," ","o","r"," ","p","a","s","s","w","o","r","d"," ","i","n","c","o","r","r","e","c","t",")">>
TxtLogin2029 ==
    <<"l","o","g","i","n"," ","f","a","i","l","e","d",":"," ","C","u","s","t","o","m","e","r"," ","a","c","c","o","u","n","t"," ","n","o","t"," ","f","o","u","n","d"," ","(","c","h","e","c","k"," ","c","u","s","t","o","m","e","r"," ","I","D",")">>
TxtLogin2057 ==
    <<"l","o","g","i","n"," ","f","a","i","l","e","d",":"," ","R","a","t","e"," ","l","i","m","i","t"," ","e","x","c","e","e","d","e","d"," ","(","m","o","r","e"," ","t","h","a","n"," ","1","8","0"," ","r","e","q","u","e","s","t","s"," ","p","e","r"," ","m","i","n","u","t","e",")","."," ","P","l","e","a","s","e"," ","w","a","i","t"," ","a","n","d"," ","r","e","t","r","y"," ","l","a","t","e","r">>
TxtStatusCodeOpen ==
    <<" ","(","s","t","a","t","u","s"," ","c","o","d","e",":"," ">>
TxtClose ==
    <<")">>
TxtLoginBadFormat ==
    <<"l","o","g","i","n"," ","f","a","i","l","e","d",":"," ","i","n","v","a","l","i","d"," ","r","e","s","p","o","n","s","e"," ","f","o","r","m","a","t">>
TxtLoginNoSession ==
    <<"l","o","g","i","n"," ","f","a","i","l","e","d",":"," ","n","o"," ","s","e","s","s","i","o","n"," ","I","D"," ","r","e","t","u","r","n","e","d"," ","i","n"," ","r","e","s","p","o","n","s","e">>
TxtHTTPFailed ==
    <<"H","T","T","P"," ","r","e","q","u","e","s","t"," ","f","a","i","l","e","d",":"," ">>
TxtGetExisting ==
    <<"f","a","i","l","e","d"," ","t","o"," ","g","e","t"," ","e","x","i","s","t","i","n","g"," ","D","N","S"," ","r","e","c","o","r","d","s",":"," ">>
TxtCreateFailed ==
    <<"f","a","i","l","e","d"," ","t","o"," ","c","r","e","a","t","e"," ","D","N","S"," ","r","e","c","o","r","d",":"," ">>
TxtGetUpdated ==
    <<"f","a","i","l","e","d"," ","t","o"," ","g","e","t"," ","u","p","d","a","t","e","d"," ","D","N","S"," ","r","e","c","o","r","d","s"," ","t","o"," ","f","i","n","d"," ","n","e","w"," ","r","e","c","o","r","d"," ","I","D",":"," ">>
TxtNoRecordID ==
    <<"D","N","S"," ","r","e","c","o","r","d"," ","w","a","s"," ","c","r","e","a","t","e","d"," ","s","u","c","c","e","s","s","f","u","l","l","y"," ","b","u","t"," ","n","o"," ","r","e","c","o","r","d"," ","I","D"," ","w","a","s"," ","f","o","u","n","d","."," ","T","h","i","s"," ","m","a","y"," ","i","n","d","i","c","a","t","e"," ","a","n"," ","A","P","I"," ","i","s","s","u","e">>
TxtDeleteFailed ==
    <<"f","a","i","l","e","d"," ","t","o"," ","d","e","l","e","t","e"," ","D","N","S"," ","r","e","c","o","r","d",":"," ">>
TxtUpdateFailed ==
    <<"f","a","i","l","e","d"," ","t","o"," ","u","p","d","a","t","e"," ","D","N","S"," ","r","e","c","o","r","d",":"," ">>
TxtRecordNotFound ==
    <<"D","N","S"," ","r","e","c","o","r","d"," ","n","o","t"," ","f","o","u","n","d",":"," ">>
TxtGetFailed ==
    <<"g","e","t"," ","D","N","S"," ","r","e","c","o","r","d","s"," ","f","a","i","l","e","d",":"," ">>
TxtInvalidRecordsFormat ==
    <<"i","n","v","a","l","i","d"," ","D","N","S"," ","r","e","c","o","r","d","s"," ","r","e","s","p","o","n","s","e"," ","f","o","r","m","a","t">>
TxtNoRecordsInResponse ==
    <<"n","o"," ","D","N","S"," ","r","e","c","o","r","d","s"," ","f","o","u","n","d"," ","i","n"," ","r","e","s","p","o","n","s","e">>
TxtResponseStructure ==
    <<" ","(","r","e","s","p","o","n","s","e"," ","s","t","r","u","c","t","u","r","e",":"," ","m","a","p","[","]",")">>
TxtUpd4013 ==
    <<"u","p","d","a","t","e"," ","D","N","S"," ","r","e","c","o","r","d","s"," ","f","a","i","l","e","d",":"," ","T","h","e"," ","D","N","S"," ","r","e","c","o","r","d","s"," ","a","r","e"," ","n","o","t"," ","i","n"," ","v","a","l","i","d"," ","f","o","r","m","a","t","."," ","C","h","e","c","k"," ","r","e","c","o","r","d"," ","t","y","p","e",","," ","h","o","s","t","n","a","m","e"," ","f","o","r","m","a","t",","," ","a","n","d"," ","d","e","s","t","i","n","a","t","i","o","n"," ","v","a","l","u","e">>
TxtUpd2016 ==
    <<"u","p","d","a","t","e"," ","D","N","S"," ","r","e","c","o","r","d","s"," ","f","a","i","l","e","d",":"," ","D","o","m","a","i","n"," ","n","o","t"," ","f","o","u","n","d"," ","o","r"," ","n","o","t"," ","a","c","c","e","s","s","i","b","l","e"," ","w","i","t","h"," ","c","u","r","r","e","n","t"," ","c","r","e","d","e","n","t","i","a","l","s">>
TxtUpd2057 ==
    <<"u","p","d","a","t","e"," ","D","N","S"," ","r","e","c","o","r","d","s"," ","f","a","i","l","e","d",":"," ","R","a","t","e"," ","l","i","m","i","t"," ","e","x","c","e","e","d","e","d","."," ","P","l","e","a","s","e"," ","w","a","i","t"," ","a","n","d"," ","r","e","t","r","y"," ","l","a","t","e","r">>
TxtUpdFailed ==
    <<"u","p","d","a","t","e"," ","D","N","S"," ","r","e","c","o","r","d","s"," ","f","a","i","l","e","d",":"," ">>
TxtValidationFailed ==
    <<"v","a","l","i","d","a","t","i","o","n"," ","f","a","i","l","e","d",":"," ">>
TxtInvalidResourceIDFormat ==
    <<"i","n","v","a","l","i","d"," ","r","e","s","o","u","r","c","e"," ","I","D"," ","f","o","r","m","a","t",":"," ">>
TxtInvalidResourceID ==
    <<"i","n","v","a","l","i","d"," ","r","e","s","o","u","r","c","e"," ","I","D",":"," ">>
TxtReadFailed ==
    <<"f","a","i","l","e","d"," ","t","o"," ","r","e","a","d"," ","D","N","S"," ","r","e","c","o","r","d"," ">>
TxtColonSpace ==
    <<":"," ">>
TxtFindExisting ==
    <<"f","a","i","l","e","d"," ","t","o"," ","f","i","n","d"," ","e","x","i","s","t","i","n","g"," ","D","N","S"," ","r","e","c","o","r","d"," ","f","o","r"," ","u","p","d","a","t","e",":"," ">>
TxtDeleteRecordFailed ==
    <<"f","a","i","l","e","d"," ","t","o"," ","d","e","l","e","t","e"," ","D","N","S"," ","r","e","c","o","r","d"," ">>
TxtMustBeFormat ==
    <<"c","o","m","p","o","s","i","t","e"," ","I","D"," ","m","u","s","t"," ","b","e"," ","i","n"," ","f","o","r","m","a","t"," ","'","d","o","m","a","i","n",":","r","e","c","o","r","d","I","D","'",","," ","g","o","t",":"," ">>
TxtInvalidCompositeFormat ==
    <<"i","n","v","a","l","i","d"," ","c","o","m","p","o","s","i","t","e"," ","I","D"," ","f","o","r","m","a","t",":"," ">>
TxtNotFound ==
    <<"n","o","t"," ","f","o","u","n","d">>
TxtDnsRecordNotFoundLc ==
    <<"d","n","s"," ","r","e","c","o","r","d"," ","n","o","t"," ","f","o","u","n","d">>
TxtRecordNotFoundLc ==
    <<"r","e","c","o","r","d"," ","n","o","t"," ","f","o","u","n","d">>
TxtDomainNotFoundLc ==
    <<"d","o","m","a","i","n"," ","n","o","t"," ","f","o","u","n","d">>
TxtStatusCode2016 ==
    <<"s","t","a","t","u","s"," ","c","o","d","e",":"," ","2","0","1","6">>
PreviewID ==
    <<"p","r","e","v","i","e","w","-","i","d">>

-----------------------------------------------------------------------------
(* Go string primitives *)

UpperChars ==
    <<"A","B","C","D","E","F","G","H","I","J","K","L","M",
      "N","O","P","Q","R","S","T","U","V","W","X","Y","Z">>

LowerChars ==
    <<"a","b","c","d","e","f","g","h","i","j","k","l","m",
      "n","o","p","q","r","s","t","u","v","w","x","y","z">>

DigitChars ==
    <<"0","1","2","3","4","5","6","7","8","9">>

\* strings.ToLower
ToLower(s) ==
    [i \in 1..Len(s) |->
        IF \E k \in 1..26 : UpperChars[k] = s[i]
        THEN LowerChars[CHOOSE k \in 1..26 : UpperChars[k] = s[i]]
        ELSE s[i]]

\* strings.ToUpper
ToUpper(s) ==
    [i \in 1..Len(s) |->
        IF \E k \in 1..26 : LowerChars[k] = s[i]
        THEN UpperChars[CHOOSE k \in 1..26 : LowerChars[k] = s[i]]
        ELSE s[i]]

\* strings.Contains
Contains(s, sub) ==
    \E i \in 0..(Len(s) - Len(sub)) : SubSeq(s, i + 1, i + Len(sub)) = sub

\* strings.Index, 0 when sub does not occur
Index(s, sub) ==
    IF Contains(s, sub)
    THEN 1 + CHOOSE i \in 0..(Len(s) - Len(sub)) :
                /\ SubSeq(s, i + 1, i + Len(sub)) = sub
                /\ \A j \in 0..(i - 1) : SubSeq(s, j + 1, j + Len(sub)) # sub
    ELSE 0

\* the %d verb of fmt for a non-negative int
RECURSIVE Itoa(_)
Itoa(n) ==
    IF n < 10 THEN <<DigitChars[n + 1]>>
    ELSE Itoa(n \div 10) \o <<DigitChars[(n % 10) + 1]>>

\* the white space strings.TrimSpace removes, as far as a string can hold it
WhiteSpace == { " ", "\t", "\n", "\r", "\f" }

\* strings.TrimSpace
TrimSpace(s) ==
    LET keep == { i \in 1..Len(s) : s[i] \notin WhiteSpace }
    IN  IF keep = {} THEN <<>>
        ELSE LET first == CHOOSE i \in keep : \A j \in keep : i <= j
                 last == CHOOSE i \in keep : \A j \in keep : j <= i
             IN  SubSeq(s, first, last)

\* a *string: nil, or a pointer to a string
NilStr == [present |-> FALSE, val |-> <<>>]

Ptr(s) == [present |-> TRUE, val |-> s]

-----------------------------------------------------------------------------
(* Pure helpers of the reconciler, dns_record.go *)

ValidTypes ==
    { <<"A">>, <<"A","A","A","A">>, <<"M","X">>, <<"C","N","A","M","E">>,
      <<"C","A","A">>, <<"S","R","V">>, <<"T","X","T">>, <<"T","L","S","A">>,
      <<"N","S">>, <<"D","S">>,
      <<"O","P","E","N","P","G","P","K","E","Y">>,
      <<"S","M","I","M","E","A">>, <<"S","S","H","F","P">> }

getValidTypesMap(t) == t \in ValidTypes

requiresPriorityMXOnly(recordType) ==
    ToUpper(recordType) \in { <<"M","X">> }

requiresPriority(recordType) ==
    ToUpper(recordType) \in { <<"M","X">>, <<"S","R","V">> }

isValidDomain(domain) ==
    IF domain = <<>> THEN FALSE
    ELSE ~Contains(domain, <<" ">>) /\ Contains(domain, <<".">>)

validateDNSRecordWithFailuresMXOnly(args) ==
    LET normalizedType == ToUpper(args.Type)
        fType == IF ~getValidTypesMap(ToUpper(args.Type))
                 THEN <<"type">> ELSE <<>>
        fDomain == IF args.Domain = <<>> THEN <<"domain">>
                   ELSE IF ~isValidDomain(args.Domain) THEN <<"domain">>
                   ELSE <<>>
        fName == IF args.Name = <<>> THEN <<"name">> ELSE <<>>
        fValue == IF args.Value = <<>> THEN <<"value">> ELSE <<>>
        fSpecific ==
            IF normalizedType = <<"M","X">>
            THEN IF ~args.Priority.present \/ args.Priority.val = <<>>
                 THEN <<"priority">> ELSE <<>>
            ELSE IF normalizedType = <<"C","N","A","M","E">>
            THEN IF args.Name = <<"@">> THEN <<"name">> ELSE <<>>
            ELSE <<>>
    IN  fType \o fDomain \o fName \o fValue \o fSpecific

validateDNSRecordFirstFailure(args) ==
    LET normalizedType == ToUpper(args.Type)
    IN  IF ~getValidTypesMap(ToUpper(args.Type)) THEN <<"type">>
        ELSE IF args.Domain = <<>> \/ ~isValidDomain(args.Domain)
        THEN <<"domain">>
        ELSE IF args.Name = <<>> THEN <<"name">>
        ELSE IF args.Value = <<>> THEN <<"value">>
        ELSE IF /\ normalizedType \in { <<"M","X">>, <<"S","R","V">> }
                /\ (~args.Priority.present \/ args.Priority.val = <<>>)
        THEN <<"priority">>
        ELSE IF normalizedType = <<"C","N","A","M","E">>
                /\ args.Name = <<"@">>
        THEN <<"name">>
        ELSE <<>>

\* the Property of each CheckFailure, in the order they are appended
validateDNSRecordWithFailures(args) ==
    LET normalizedType == ToUpper(args.Type)
        fType == IF ~getValidTypesMap(ToUpper(args.Type))
                 THEN <<"type">> ELSE <<>>
        fDomain == IF args.Domain = <<>> THEN <<"domain">>
                   ELSE IF ~isValidDomain(args.Domain) THEN <<"domain">>
                   ELSE <<>>
        fName == IF args.Name = <<>> THEN <<"name">> ELSE <<>>
        fValue == IF args.Value = <<>> THEN <<"value">> ELSE <<>>
        fSpecific ==
            IF normalizedType \in { <<"M","X">>, <<"S","R","V">> }
            THEN IF ~args.Priority.present \/ args.Priority.val = <<>>
                 THEN <<"priority">> ELSE <<>>
            ELSE IF normalizedType = <<"C","N","A","M","E">>
            THEN IF args.Name = <<"@">> THEN <<"name">> ELSE <<>>
            ELSE <<>>
    IN  fType \o fDomain \o fName \o fValue \o fSpecific

sanitizeRecordName(name) ==
    LET trimmed == TrimSpace(name)
    IN  IF trimmed = <<>> THEN <<"@">> ELSE trimmed

normalizeInputsKeepCase(args) ==
    [Type |-> ToUpper(TrimSpace(args.Type)),
     Domain |-> TrimSpace(args.Domain),
     Name |-> sanitizeRecordName(args.Name),
     Value |-> TrimSpace(args.Value),
     Priority |-> IF args.Priority.present
                  THEN Ptr(TrimSpace(args.Priority.val))
                  ELSE args.Priority]

normalizeInputs(args) ==
    [Type |-> ToUpper(TrimSpace(args.Type)),
     Domain |-> ToLower(TrimSpace(args.Domain)),
     Name |-> sanitizeRecordName(args.Name),
     Value |-> TrimSpace(args.Value),
     Priority |-> IF args.Priority.present
                  THEN Ptr(TrimSpace(args.Priority.val))
                  ELSE args.Priority]

\* Check on inputs that infer.DefaultCheck decodes without failure
Check(newInputs) ==
    LET args == normalizeInputs(newInputs)
    IN  [Inputs |-> args, Failures |-> validateDNSRecordWithFailures(args)]

priorityChangedByPointer(inputPriority, statePriority, recordType) ==
    inputPriority.present \/ statePriority.present

priorityChanged(inputPriority, statePriority, recordType) ==
    LET inputVal == IF inputPriority.present THEN inputPriority.val ELSE <<>>
        stateVal == IF statePriority.present THEN statePriority.val ELSE <<>>
    IN  IF ~requiresPriority(recordType)
        THEN LET inputNormalized == inputVal = <<>> \/ inputVal = <<"0">>
                 stateNormalized == stateVal = <<>> \/ stateVal = <<"0">>
             IN  inputNormalized # stateNormalized /\ inputVal # stateVal
        ELSE inputVal # stateVal

createCompositeIDNoSeparator(domain, recordID) == domain \o recordID

createCompositeID(domain, recordID) == domain \o <<":">> \o recordID

\* strings.SplitN(compositeID, ":", 2) behind the Contains guard
parseCompositeID(compositeID) ==
    IF ~Contains(compositeID, <<":">>)
    THEN [ok |-> FALSE, domain |-> <<>>, recordID |-> <<>>,
          msg |-> TxtMustBeFormat \o compositeID]
    ELSE LET i == Index(compositeID, <<":">>)
             part0 == SubSeq(compositeID, 1, i - 1)
             part1 == SubSeq(compositeID, i + 1, Len(compositeID))
         IN  IF part0 = <<>> \/ part1 = <<>>
             THEN [ok |-> FALSE, domain |-> <<>>, recordID |-> <<>>,
                   msg |-> TxtInvalidCompositeFormat \o compositeID]
             ELSE [ok |-> TRUE, domain |-> part0, recordID |-> part1,
                   msg |-> <<>>]

buildFQDNNoApex(name, domain) ==
    IF name = <<>> THEN domain
    ELSE name \o <<".">> \o domain

buildFQDN(name, domain) ==
    IF name = <<"@">> \/ name = <<>> THEN domain
    ELSE name \o <<".">> \o domain

PropertyDiff(kind, inputDiff) == [Kind |-> kind, InputDiff |-> inputDiff]

DiffValueReplaces(inputs, state) ==
    LET replaced == { k \in {"domain", "name", "type", "value"} :
                        \/ k = "domain" /\ inputs.Domain # state.Domain
                        \/ k = "name" /\ inputs.Name # state.Name
                        \/ k = "type" /\ inputs.Type # state.Type
                        \/ k = "value" /\ inputs.Value # state.Value }
        valueDiffers == inputs.Value # state.Value
        priorityDiffers ==
            priorityChanged(inputs.Priority, state.Priority, inputs.Type)
        newFQDN == buildFQDN(inputs.Name, inputs.Domain)
        keys == replaced
                  \cup (IF valueDiffers THEN {"value"} ELSE {})
                  \cup (IF priorityDiffers THEN {"priority"} ELSE {})
                  \cup (IF newFQDN # state.FQDN THEN {"fqdn"} ELSE {})
    IN  [DeleteBeforeReplace |-> replaced # {},
         HasChanges |-> replaced # {} \/ valueDiffers \/ priorityDiffers,
         DetailedDiff |->
            [k \in keys |->
                IF k \in replaced THEN PropertyDiff("UpdateReplace", TRUE)
                ELSE IF k = "fqdn" THEN PropertyDiff("Update", FALSE)
                ELSE PropertyDiff("Update", TRUE)]]

DiffFQDNChanges(inputs, state) ==
    LET replaced == { k \in {"domain", "name", "type"} :
                        \/ k = "domain" /\ inputs.Domain # state.Domain
                        \/ k = "name" /\ inputs.Name # state.Name
                        \/ k = "type" /\ inputs.Type # state.Type }
        valueDiffers == inputs.Value # state.Value
        priorityDiffers ==
            priorityChanged(inputs.Priority, state.Priority, inputs.Type)
        newFQDN == buildFQDN(inputs.Name, inputs.Domain)
        keys == replaced
                  \cup (IF valueDiffers THEN {"value"} ELSE {})
                  \cup (IF priorityDiffers THEN {"priority"} ELSE {})
                  \cup (IF newFQDN # state.FQDN THEN {"fqdn"} ELSE {})
    IN  [DeleteBeforeReplace |-> replaced # {},
         HasChanges |-> \/ replaced # {} \/ valueDiffers \/ priorityDiffers
                       \/ newFQDN # state.FQDN,
         DetailedDiff |->
            [k \in keys |->
                IF k \in replaced THEN PropertyDiff("UpdateReplace", TRUE)
                ELSE IF k = "fqdn" THEN PropertyDiff("Update", FALSE)
                ELSE PropertyDiff("Update", TRUE)]]

\* Diff: detailedDiff is the map from property name to PropertyDiff
Diff(inputs, state) ==
    LET replaced == { k \in {"domain", "name", "type"} :
                        \/ k = "domain" /\ inputs.Domain # state.Domain
                        \/ k = "name" /\ inputs.Name # state.Name
                        \/ k = "type" /\ inputs.Type # state.Type }
        valueDiffers == inputs.Value # state.Value
        priorityDiffers ==
            priorityChanged(inputs.Priority, state.Priority, inputs.Type)
        newFQDN == buildFQDN(inputs.Name, inputs.Domain)
        keys == replaced
                  \cup (IF valueDiffers THEN {"value"} ELSE {})
                  \cup (IF priorityDiffers THEN {"priority"} ELSE {})
                  \cup (IF newFQDN # state.FQDN THEN {"fqdn"} ELSE {})
    IN  [DeleteBeforeReplace |-> replaced # {},
         HasChanges |-> replaced # {} \/ valueDiffers \/ priorityDiffers,
         DetailedDiff |->
            [k \in keys |->
                IF k \in replaced THEN PropertyDiff("UpdateReplace", TRUE)
                ELSE IF k = "fqdn" THEN PropertyDiff("Update", FALSE)
                ELSE PropertyDiff("Update", TRUE)]]

\* isNotFoundError on the text of a non-nil error
isNotFoundError(msg) ==
    LET errMsg == ToLower(msg)
    IN  \/ Contains(errMsg, TxtDnsRecordNotFoundLc)
        \/ Contains(errMsg, TxtNotFound)
        \/ Contains(errMsg, TxtRecordNotFoundLc)
        \/ Contains(errMsg, TxtDomainNotFoundLc)
        \/ Contains(errMsg, TxtStatusCode2016)

-----------------------------------------------------------------------------
(* Inputs of the model: the requests of the orchestrator and the answers   *)
(* of the backend that are not determined by the zone                      *)

\* the zone hosted for this account
Dom == <<"e",".","c">>

TypeA == <<"A">>

TypeMX == <<"M","X">>

Args(domain, name, type, value, priority) ==
    [Domain |-> domain, Name |-> name, Type |-> type, Value |-> value,
     Priority |-> priority]

ArgsA1 == Args(Dom, <<"w">>, TypeA, <<"1">>, NilStr)

ArgsA2 == Args(Dom, <<"w">>, TypeA, <<"2">>, NilStr)

ArgsMX10 == Args(Dom, <<"@">>, TypeMX, <<"m">>, Ptr(<<"1","0">>))

\* MX without a priority: fails validation
ArgsMXNone == Args(Dom, <<"@">>, TypeMX, <<"m">>, NilStr)

\* CNAME at the zone apex: fails validation
ArgsCnameApex ==
    Args(Dom, <<"@">>, <<"C","N","A","M","E">>, <<"t">>, NilStr)

\* inputs as Check hands them on: normalised, valid or not
InputSpace == { ArgsA1, ArgsA2, ArgsMX10, ArgsMXNone, ArgsCnameApex }

\* a composite id without separator
BadID == <<"e",".","c">>

\* a composite id with two separators
TwoSeparatorsID == <<"e",".","c",":","1",":","2">>

IDSpace ==
    { createCompositeID(Dom, <<"1">>), createCompositeID(Dom, <<"2">>),
      BadID }

\* a record left in the zone by an earlier run: MX with priority 20
SeedRecord ==
    [id |-> <<"1">>, hostname |-> <<"@">>, type |-> TypeMX,
     priority |-> <<"2","0">>, destination |-> <<"m">>,
     state |-> <<"y","e","s">>]

InitialZones == { <<>>, <<SeedRecord>> }

Procs == {1, 2}

Request(o, d, a, i) == [op |-> o, dryRun |-> d, inputs |-> a, id |-> i]

NoArgs == Args(<<>>, <<>>, <<>>, <<>>, NilStr)

\* what serialised callers may ask for, failures of the backend included
SerialRequests ==
    { Request("Create", d, a, <<>>) : d \in BOOLEAN, a \in InputSpace }
    \cup { Request("Read", FALSE, NoArgs, i) : i \in IDSpace }
    \cup { Request("Update", d, a, i) :
             d \in BOOLEAN, a \in {ArgsA2, ArgsMXNone}, i \in IDSpace }
    \cup { Request("Delete", FALSE, NoArgs, i) : i \in IDSpace }
    \cup { Request("Read", FALSE, NoArgs, TwoSeparatorsID),
           Request("Update", FALSE, ArgsA2, TwoSeparatorsID),
           Request("Delete", FALSE, NoArgs, TwoSeparatorsID) }

\* what overlapping callers ask for: the writes the race is about
ConcRequests ==
    { Request("Create", FALSE, a, <<>>) : a \in {ArgsA1, ArgsMX10} }
    \cup { Request("Update", FALSE, ArgsA2, createCompositeID(Dom, <<"1">>)),
           Request("Delete", FALSE, NoArgs, createCompositeID(Dom, <<"1">>)) }

LongMessages == { <<"e","r","r","o","r">> }

TransportTexts == { <<"t","i","m","e","o","u","t">> }

LoginCodes == {2011, 2029, 2057, 5029}

InfoCodes == {2016, 5029}

UpdateCodes == {4013, 2016, 2057, 5029}

\* NetcupAPIResponse as makeAPICall returns it, or its error
Response(neterr, status, code, long, shape) ==
    [neterr |-> neterr, Status |-> status, StatusCode |-> code,
     LongMessage |-> long, shape |-> shape]

SuccessResponse == Response(<<>>, "success", 2000, <<>>, "data")

TransportFaults ==
    { Response(t, "", 0, <<>>, "none") : t \in TransportTexts }

StatusFaults(codes) ==
    { Response(<<>>, "error", c, m, "none") : c \in codes, m \in LongMessages }

\* responsedata that is no object, and an object without the expected key
ShapeFaults ==
    { Response(<<>>, "success", 2000, <<>>, s) : s \in {"nomap", "nokey"} }

LoginFaults == TransportFaults \cup StatusFaults(LoginCodes) \cup ShapeFaults

InfoFaults == TransportFaults \cup StatusFaults(InfoCodes) \cup ShapeFaults

UpdateFaults == TransportFaults \cup StatusFaults(UpdateCodes)

LogoutFaults == TransportFaults

-----------------------------------------------------------------------------
(* Errors and results *)

Err(kind, msg) == [kind |-> kind, msg |-> msg]

NoErr == Err("none", <<>>)

\* fmt.Errorf(prefix + "%w", err)
Wrap(prefix, e) == Err(e.kind, prefix \o e.msg)

\* makeAPICall
makeAPICall(resp) ==
    IF resp.neterr # <<>>
    THEN Err("transport", TxtHTTPFailed \o resp.neterr)
    ELSE NoErr

\* a login that reports every refusal as the generic failure
loginUnclassified(resp) ==
    IF makeAPICall(resp) # NoErr
    THEN Wrap(TxtLoginFailed, makeAPICall(resp))
    ELSE IF resp.Status # "success"
    THEN Err("backend",
             TxtLoginFailed \o resp.LongMessage \o TxtStatusCodeOpen
               \o Itoa(resp.StatusCode) \o TxtClose)
    ELSE IF resp.shape = "nomap" THEN Err("malformed", TxtLoginBadFormat)
    ELSE IF resp.shape = "nokey" THEN Err("malformed", TxtLoginNoSession)
    ELSE NoErr

\* login: the error it returns, NoErr when a session id is returned
login(resp) ==
    IF makeAPICall(resp) # NoErr
    THEN Wrap(TxtLoginFailed, makeAPICall(resp))
    ELSE IF resp.Status # "success"
    THEN IF resp.StatusCode = 2011 THEN Err("credentials", TxtLogin2011)
         ELSE IF resp.StatusCode = 2029 THEN Err("account", TxtLogin2029)
         ELSE IF resp.StatusCode = 2057 THEN Err("ratelimit", TxtLogin2057)
         ELSE Err("backend",
                  TxtLoginFailed \o resp.LongMessage \o TxtStatusCodeOpen
                    \o Itoa(resp.StatusCode) \o TxtClose)
    ELSE IF resp.shape = "nomap" THEN Err("malformed", TxtLoginBadFormat)
    ELSE IF resp.shape = "nokey" THEN Err("malformed", TxtLoginNoSession)
    ELSE NoErr

\* DnsRecordInfo built from one element of responsedata.dnsrecords
ParseRecord(w) ==
    [ID |-> w.id, Hostname |-> w.hostname, Type |-> w.type,
     Priority |-> w.priority, Destination |-> w.destination,
     DeleteRecord |-> FALSE, State |-> w.state]

NoRecord ==
    [ID |-> <<>>, Hostname |-> <<>>, Type |-> <<>>, Priority |-> <<>>,
     Destination |-> <<>>, DeleteRecord |-> FALSE, State |-> <<>>]

\* a getAllDnsRecords that takes a missing list for an empty zone
getAllDnsRecordsLenient(resp, wire) ==
    IF makeAPICall(resp) # NoErr
    THEN [err |-> makeAPICall(resp), records |-> <<>>]
    ELSE IF resp.Status # "success"
    THEN [err |-> Err("backend",
                      TxtGetFailed \o resp.LongMessage \o TxtStatusCodeOpen
                        \o Itoa(resp.StatusCode) \o TxtClose),
          records |-> <<>>]
    ELSE IF resp.shape = "nomap"
    THEN [err |-> Err("malformed", TxtInvalidRecordsFormat), records |-> <<>>]
    ELSE IF resp.shape = "nokey"
    THEN [err |-> NoErr, records |-> <<>>]
    ELSE [err |-> NoErr,
          records |-> [i \in 1..Len(wire) |-> ParseRecord(wire[i])]]

\* getAllDnsRecords: error and parsed records
getAllDnsRecords(resp, wire) ==
    IF makeAPICall(resp) # NoErr
    THEN [err |-> makeAPICall(resp), records |-> <<>>]
    ELSE IF resp.Status # "success"
    THEN [err |-> Err("backend",
                      TxtGetFailed \o resp.LongMessage \o TxtStatusCodeOpen
                        \o Itoa(resp.StatusCode) \o TxtClose),
          records |-> <<>>]
    ELSE IF resp.shape = "nomap"
    THEN [err |-> Err("malformed", TxtInvalidRecordsFormat), records |-> <<>>]
    ELSE IF resp.shape = "nokey"
    THEN [err |-> Err("malformed", TxtNoRecordsInResponse), records |-> <<>>]
    ELSE [err |-> NoErr,
          records |-> [i \in 1..Len(wire) |-> ParseRecord(wire[i])]]

\* the search by id that settles for the last record
FirstWithIDOrLast(records, recordID) ==
    IF \E i \in 1..Len(records) : records[i].ID = recordID
    THEN CHOOSE i \in 1..Len(records) :
            /\ records[i].ID = recordID
            /\ \A j \in 1..(i - 1) : records[j].ID # recordID
    ELSE Len(records)

\* index of the first record with this id, 0 when there is none
FirstWithID(records, recordID) ==
    IF \E i \in 1..Len(records) : records[i].ID = recordID
    THEN CHOOSE i \in 1..Len(records) :
            /\ records[i].ID = recordID
            /\ \A j \in 1..(i - 1) : records[j].ID # recordID
    ELSE 0

\* GetDnsRecordById after its login: error and record
GetDnsRecordById(resp, wire, recordID) ==
    IF makeAPICall(resp) # NoErr
    THEN [err |-> makeAPICall(resp), record |-> NoRecord]
    ELSE IF resp.Status # "success"
    THEN [err |-> Err("backend",
                      TxtGetFailed \o resp.LongMessage \o TxtStatusCodeOpen
                        \o Itoa(resp.StatusCode) \o TxtClose),
          record |-> NoRecord]
    ELSE IF resp.shape = "nomap"
    THEN [err |-> Err("malformed", TxtInvalidRecordsFormat),
          record |-> NoRecord]
    ELSE IF resp.shape = "nokey"
    THEN [err |-> Err("malformed",
                      TxtNoRecordsInResponse \o TxtResponseStructure),
          record |-> NoRecord]
    ELSE LET records == [i \in 1..Len(wire) |-> ParseRecord(wire[i])]
             k == FirstWithID(records, recordID)
         IN  IF k # 0
             THEN [err |-> NoErr, record |-> records[k]]
             ELSE [err |-> Err("notfound", TxtRecordNotFound \o recordID),
                   record |-> NoRecord]

\* an updateAllDnsRecords that goes by the status code alone
updateAllDnsRecordsByCode(resp) ==
    IF makeAPICall(resp) # NoErr THEN makeAPICall(resp)
    ELSE IF resp.StatusCode # 2000
    THEN IF resp.StatusCode = 4013 THEN Err("format", TxtUpd4013)
         ELSE IF resp.StatusCode = 2016 THEN Err("domain", TxtUpd2016)
         ELSE IF resp.StatusCode = 2057 THEN Err("ratelimit", TxtUpd2057)
         ELSE Err("backend",
                  TxtUpdFailed \o resp.LongMessage \o TxtStatusCodeOpen
                    \o Itoa(resp.StatusCode) \o TxtClose)
    ELSE NoErr

\* updateAllDnsRecords: the error it returns
updateAllDnsRecords(resp) ==
    IF makeAPICall(resp) # NoErr THEN makeAPICall(resp)
    ELSE IF resp.Status # "success"
    THEN IF resp.StatusCode = 4013 THEN Err("format", TxtUpd4013)
         ELSE IF resp.StatusCode = 2016 THEN Err("domain", TxtUpd2016)
         ELSE IF resp.StatusCode = 2057 THEN Err("ratelimit", TxtUpd2057)
         ELSE Err("backend",
                  TxtUpdFailed \o resp.LongMessage \o TxtStatusCodeOpen
                    \o Itoa(resp.StatusCode) \o TxtClose)
    ELSE NoErr

-----------------------------------------------------------------------------
(* The fetch-modify-submit steps of the client, netcup_client.go *)

\* CreateDnsRecord that submits the new record alone
CreateSubmitSetOnlyNew(existingRecords, name, recordType, value, priority) ==
    <<[ID |-> <<>>, Hostname |-> name, Type |-> recordType,
       Priority |-> priority, Destination |-> value,
       DeleteRecord |-> FALSE, State |-> <<>>]>>

\* CreateDnsRecord: the set it submits
CreateSubmitSet(existingRecords, name, recordType, value, priority) ==
    Append(existingRecords,
           [ID |-> <<>>, Hostname |-> name, Type |-> recordType,
            Priority |-> IF priority # <<>> THEN priority ELSE <<>>,
            Destination |-> value, DeleteRecord |-> FALSE, State |-> <<>>])

\* a match that does not look at the destination
CreateMatchAnyDestination(record, name, recordType, value, priority) ==
    LET match == /\ record.Hostname = name
                 /\ record.Type = recordType
    IN  IF recordType = TypeMX /\ priority # <<>>
        THEN match /\ record.Priority = priority
        ELSE match

\* CreateDnsRecord: does this re-fetched record match the submitted values
CreateMatch(record, name, recordType, value, priority) ==
    LET match == /\ record.Hostname = name
                 /\ record.Type = recordType
                 /\ record.Destination = value
    IN  IF recordType = TypeMX /\ priority # <<>>
        THEN match /\ record.Priority = priority
        ELSE match

\* the search for the new id that keeps the last match
ResolveIndexLast(updatedRecords, name, recordType, value, priority) ==
    LET hit(i) == /\ CreateMatch(updatedRecords[i], name, recordType, value,
                                 priority)
                  /\ updatedRecords[i].ID # <<>>
    IN  IF \E i \in 1..Len(updatedRecords) : hit(i)
        THEN CHOOSE i \in 1..Len(updatedRecords) :
                hit(i) /\ \A j \in (i + 1)..Len(updatedRecords) : ~hit(j)
        ELSE 0

\* CreateDnsRecord: index of the record whose id is returned, 0 for none
ResolveIndex(updatedRecords, name, recordType, value, priority) ==
    LET hit(i) == /\ CreateMatch(updatedRecords[i], name, recordType, value,
                                 priority)
                  /\ updatedRecords[i].ID # <<>>
    IN  IF \E i \in 1..Len(updatedRecords) : hit(i)
        THEN CHOOSE i \in 1..Len(updatedRecords) :
                hit(i) /\ \A j \in 1..(i - 1) : ~hit(j)
        ELSE 0

\* a delete that tombstones every record of the set
DeleteSubmitSetWholeZone(existingRecords, recordID) ==
    [i \in 1..Len(existingRecords) |->
        [existingRecords[i] EXCEPT !.DeleteRecord = TRUE]]

\* DeleteDnsRecord: the set it submits once the record is found
DeleteSubmitSet(existingRecords, recordID) ==
    LET k == FirstWithID(existingRecords, recordID)
    IN  [i \in 1..Len(existingRecords) |->
            IF i = k
            THEN [existingRecords[i] EXCEPT !.DeleteRecord = TRUE]
            ELSE existingRecords[i]]

\* an update that leaves the priority of the record alone when none is given
UpdateSubmitSetKeepPriority(existingRecords, recordID, name, recordType, value, priority) ==
    LET k == FirstWithID(existingRecords, recordID)
    IN  [i \in 1..Len(existingRecords) |->
            IF i = k
            THEN [existingRecords[i] EXCEPT
                    !.Hostname = name, !.Type = recordType,
                    !.Destination = value,
                    !.Priority = IF priority # <<>> THEN priority ELSE @]
            ELSE existingRecords[i]]

\* UpdateDnsRecord: the set it submits once the record is found
UpdateSubmitSet(existingRecords, recordID, name, recordType, value, priority) ==
    LET k == FirstWithID(existingRecords, recordID)
    IN  [i \in 1..Len(existingRecords) |->
            IF i = k
            THEN [existingRecords[i] EXCEPT
                    !.Hostname = name, !.Type = recordType,
                    !.Destination = value,
                    !.Priority = IF priority # <<>> THEN priority ELSE <<>>]
            ELSE existingRecords[i]]

\* *string to string, as Create and Update do before calling the client
PriorityArg(args) ==
    IF args.Priority.present THEN args.Priority.val ELSE <<>>

-----------------------------------------------------------------------------
(* The zone service.  updateDnsRecords replaces the record set of the zone  *)
(* by the submitted one: tombstoned entries are removed, entries without an *)
(* id get a fresh one, an absent priority is stored as "0".                 *)

StoredRecord(r, id) ==
    [id |-> id, hostname |-> r.Hostname, type |-> r.Type,
     priority |-> IF r.Priority = <<>> THEN <<"0">> ELSE r.Priority,
     destination |-> r.Destination, state |-> <<"y","e","s">>]

RECURSIVE BackendApply(_, _)
BackendApply(set, next) ==
    IF set = <<>> THEN [zone |-> <<>>, next |-> next]
    ELSE LET r == Head(set)
         IN  IF r.DeleteRecord THEN BackendApply(Tail(set), next)
             ELSE IF r.ID = <<>>
             THEN LET rest == BackendApply(Tail(set), next + 1)
                  IN  [zone |-> <<StoredRecord(r, Itoa(next))>> \o rest.zone,
                       next |-> rest.next]
             ELSE LET rest == BackendApply(Tail(set), next)
                  IN  [zone |-> <<StoredRecord(r, r.ID)>> \o rest.zone,
                       next |-> rest.next]

-----------------------------------------------------------------------------
(* Results of the reconciler, dns_record.go *)

NoState ==
    [Domain |-> <<>>, Name |-> <<>>, Type |-> <<>>, Value |-> <<>>,
     Priority |-> NilStr, RecordID |-> <<>>, FQDN |-> <<>>]

State(args, recordID, fqdn) ==
    [Domain |-> args.Domain, Name |-> args.Name, Type |-> args.Type,
     Value |-> args.Value, Priority |-> args.Priority,
     RecordID |-> recordID, FQDN |-> fqdn]

\* what a reconciler call returns: an error, or a response with ID and state;
\* the zero response with a nil error is "absent" for Read
Result(err, id, state) == [err |-> err, ID |-> id, state |-> state]

NoResult == Result(NoErr, <<>>, NoState)

Failed(err) == Result(err, <<>>, NoState)

\* Create, after CreateDnsRecord returned
CreateResult(req, cerr, recordID) ==
    IF cerr # NoErr THEN Failed(Wrap(TxtCreateFailed, cerr))
    ELSE Result(NoErr, createCompositeID(req.inputs.Domain, recordID),
                State(req.inputs, recordID,
                      buildFQDN(req.inputs.Name, req.inputs.Domain)))

\* Read that reports every failure of GetDnsRecordById
ReadResultStrict(req, cerr, currentRecord) ==
    LET parsed == parseCompositeID(req.id)
        priority == IF currentRecord.Priority # <<>>
                       /\ currentRecord.Priority # <<"0">>
                    THEN Ptr(currentRecord.Priority) ELSE NilStr
        args == Args(parsed.domain, currentRecord.Hostname,
                     currentRecord.Type, currentRecord.Destination, priority)
    IN  IF cerr # NoErr
        THEN Failed(Wrap(TxtReadFailed \o parsed.recordID \o TxtColonSpace,
                         cerr))
        ELSE Result(NoErr, req.id,
                    State(args, parsed.recordID,
                          buildFQDN(currentRecord.Hostname, parsed.domain)))

\* Read, after GetDnsRecordById returned
ReadResultInputsDomain(req, cerr, currentRecord) ==
    LET parsed == parseCompositeID(req.id)
        priority == IF currentRecord.Priority # <<>>
                       /\ currentRecord.Priority # <<"0">>
                    THEN Ptr(currentRecord.Priority) ELSE NilStr
        args == Args(req.inputs.Domain, currentRecord.Hostname,
                     currentRecord.Type, currentRecord.Destination, priority)
    IN  IF cerr # NoErr
        THEN IF isNotFoundError(cerr.msg) THEN NoResult
             ELSE Failed(Wrap(TxtReadFailed \o parsed.recordID
                                \o TxtColonSpace, cerr))
        ELSE Result(NoErr, req.id,
                    State(args, parsed.recordID,
                          buildFQDN(currentRecord.Hostname, parsed.domain)))

ReadResult(req, cerr, currentRecord) ==
    LET parsed == parseCompositeID(req.id)
        priority == IF currentRecord.Priority # <<>>
                       /\ currentRecord.Priority # <<"0">>
                    THEN Ptr(currentRecord.Priority) ELSE NilStr
        args == Args(parsed.domain, currentRecord.Hostname,
                     currentRecord.Type, currentRecord.Destination, priority)
    IN  IF cerr # NoErr
        THEN IF isNotFoundError(cerr.msg) THEN NoResult
             ELSE Failed(Wrap(TxtReadFailed \o parsed.recordID
                                \o TxtColonSpace, cerr))
        ELSE Result(NoErr, req.id,
                    State(args, parsed.recordID,
                          buildFQDN(currentRecord.Hostname, parsed.domain)))

\* Update, after UpdateDnsRecord returned
UpdateResult(req, cerr) ==
    IF cerr # NoErr THEN Failed(Wrap(TxtUpdateFailed, cerr))
    ELSE Result(NoErr, <<>>,
                State(req.inputs, parseCompositeID(req.id).recordID,
                      buildFQDN(req.inputs.Name, req.inputs.Domain)))

\* Delete, after DeleteDnsRecord returned
DeleteResult(req, cerr) ==
    IF cerr # NoErr
    THEN Failed(Wrap(TxtDeleteRecordFailed
                       \o parseCompositeID(req.id).recordID
                       \o TxtColonSpace, cerr))
    ELSE NoResult


-----------------------------------------------------------------------------
(* Arguments the pure functions of the reconciler are applied to *)

\* every string of at most n characters of the alphabet
Strs(alphabet, n) == UNION { [1..k -> alphabet] : k \in 0..n }

\* composite ids as the orchestrator may hand them in
CompositeIDs == Strs({"e", ".", ":"}, MaxLen)

\* domain and record id handed to createCompositeID
IDParts == Strs({"e", ":"}, MaxLen - 1)

\* record names handed to buildFQDN
RecordNames == Strs({"@", "w", "."}, MaxLen)

\* inputs as the user writes them, before Check
RawArgs ==
    { Args(d, n, t, v, pr) :
        d \in { Dom, <<" ","E",".","c"," ">>, <<"e","c">>,
                <<"e"," ","c",".","d">>, <<" ">>, <<>> },
        n \in { <<"w">>, <<" ","w","\n">>, <<"@">>, <<" ">>, <<>> },
        t \in { <<"A">>, <<"m","x">>, <<" ","M","X","\t">>, <<"S","R","V">>,
                <<"c","n","a","m","e">>, <<"X">>, <<>> },
        v \in { <<"1">>, <<" ","1"," ">>, <<>> },
        pr \in { NilStr, Ptr(<<>>), Ptr(<<" ">>), Ptr(<<"0">>),
                 Ptr(<<" ","1","0">>) } }

\* inputs and stored states handed to Diff
DiffDomains == { Dom, <<"f",".","c">> }

DiffArgs ==
    { Args(d, n, t, v, pr) :
        d \in DiffDomains,
        n \in { <<"w">>, <<"@">> },
        t \in { <<"A">>, <<"M","X">>, <<"S","R","V">> },
        v \in { <<"1">>, <<"2">> },
        pr \in { NilStr, Ptr(<<>>), Ptr(<<"0">>), Ptr(<<"1","0">>),
                 Ptr(<<"2","0">>) } }

\* the state Create or Update stored for args, and one whose fqdn is stale
DiffStates ==
    { State(a, <<"1">>, f) :
        a \in DiffArgs,
        f \in { <<"o",".","c">> } } \cup
    { State(a, <<"1">>, buildFQDN(a.Name, a.Domain)) : a \in DiffArgs }

\* records of the set CreateDnsRecord gets from its second fetch: of the
\* apex name and one destination, with or without id
RefetchedRecords ==
    { [ID |-> i, Hostname |-> <<"@">>, Type |-> t, Priority |-> pr,
       Destination |-> <<"m">>, DeleteRecord |-> FALSE,
       State |-> <<"y","e","s">>] :
        i \in { <<>>, <<"1">>, <<"2">> }, t \in { TypeMX, <<"S","R","V">> },
        pr \in { <<"1","0">>, <<"2","0">> } }

\* the sets of them in which no id is given twice
RefetchedSets ==
    { s \in UNION { [1..k -> RefetchedRecords] : k \in 0..MaxRecords } :
        \A i, j \in 1..Len(s) :
            (i # j /\ s[i].ID # <<>>) => s[i].ID # s[j].ID }

\* the records CreateDnsRecord is asked to create in such a set
ResolveArgs ==
    { Args(Dom, <<"@">>, t, <<"m">>, Ptr(pr)) :
        t \in { TypeMX, <<"S","R","V">> },
        pr \in { <<"1","0">>, <<"2","0">> } }

Applications ==
    { [for |-> "parseCompositeID", compositeID |-> s] : s \in CompositeIDs }
    \cup { [for |-> "createCompositeID", domain |-> d, recordID |-> r] :
             d \in IDParts, r \in IDParts }
    \cup { [for |-> "buildFQDN", name |-> n, domain |-> d] :
             n \in RecordNames, d \in { Dom, <<>> } }
    \cup { [for |-> f, args |-> a] :
             f \in { "Check", "validateDNSRecordWithFailures" },
             a \in RawArgs }
    \cup { [for |-> "Diff", inputs |-> a, state |-> s] :
             a \in DiffArgs, s \in DiffStates }

\* the applications of the search for the id of a created record
Resolutions ==
    { [for |-> "CreateDnsRecord", inputs |-> a, updatedRecords |-> s] :
        a \in ResolveArgs, s \in RefetchedSets }

\* answers of the backend to updateDnsRecords and infoDnsRecords: every
\* status with every code and shape of the data, and the transport errors
BackendAnswers ==
    TransportFaults \cup
    { Response(<<>>, st, c, m, sh) :
        st \in { "success", "error" },
        c \in { 2000, 2016, 2057, 4013, 5029 },
        m \in LongMessages \cup { <<>> },
        sh \in { "data", "nomap", "nokey" } }

\* the applications of updateAllDnsRecords and getAllDnsRecords to them
Exchanges ==
    { [for |-> "updateAllDnsRecords", resp |-> r] : r \in BackendAnswers }
    \cup { [for |-> "getAllDnsRecords", resp |-> r, wire |-> w] :
             r \in BackendAnswers, w \in InitialZones }

\* valid inputs as Check returns them
CheckedArgs ==
    { a \in DiffArgs : Check(a) = [Inputs |-> a, Failures |-> <<>>] }

\* a Create of such inputs on a zone, followed by a Read and a Diff
Reruns ==
    { [for |-> "Create, Read, Diff", inputs |-> a, wire |-> w] :
        a \in CheckedArgs, w \in InitialZones }

\* calls of Create, Read and Update on the zone of the domain they address:
\* Create also in a domain that passes the validation and holds a ':'
Operations ==
    LET SeparatorDomain == <<"e",":","c",".","d">>
        OperationArgs ==
            { a \in DiffArgs \cup { [b EXCEPT !.Domain = SeparatorDomain] :
                                      b \in DiffArgs } :
                Check(a) = [Inputs |-> a, Failures |-> <<>>] }
        OperationIDs ==
            { createCompositeID(d, n) :
                d \in DiffDomains, n \in { <<"1">>, <<"2">> } }
            \cup { TwoSeparatorsID }
    IN  { [for |-> "operation", req |-> Request("Create", d, a, <<>>),
           wire |-> w] :
            a \in OperationArgs, d \in BOOLEAN, w \in InitialZones }
        \cup { [for |-> "operation", req |-> Request("Read", FALSE, NoArgs, i),
                 wire |-> w] :
                 i \in OperationIDs, w \in InitialZones }
        \cup { [for |-> "operation", req |-> Request("Update", d, a, i),
                 wire |-> w] :
                 a \in CheckedArgs, d \in BOOLEAN, i \in OperationIDs,
                 w \in InitialZones }

NoArg == [for |-> "none"]

NoOut == [of |-> "none"]
-----------------------------------------------------------------------------
(* State *)

VARIABLES
    conc,       \* do the callers overlap their reconciler calls
    zone,       \* the record set of Dom at the backend, in returned order
    nextId,     \* the next record id the backend assigns
    pc,         \* per caller: the backend call its reconciler call is at
    req,        \* per caller: the request being served
    phase,      \* per caller: the client operation in progress
    fetched,    \* per caller: existingRecords of the client operation
    seen,       \* per caller: the records of its latest successful fetch
    sent,       \* per caller: the set handed to updateAllDnsRecords
    ret,        \* per caller: what the client operation returns after logout
    res,        \* per caller: what the reconciler call returned
    calls,      \* per caller: backend calls issued by the reconciler call
    nops,       \* reconciler calls started
    nfaults,    \* backend calls that failed
    track,      \* per record id: what successful calls said about it
    ver,        \* successful submits so far
    hist,       \* per caller: how its fetch and submit interleave with others
    fn,         \* the pure function applied, "none" before
    arg,        \* the arguments it is applied to
    out         \* what it returned

vars ==
    <<conc, zone, nextId, pc, req, phase, fetched, seen, sent, ret, res,
      calls, nops, nfaults, track, ver, hist, fn, arg, out>>

\* the part of the state the backend protocol leaves alone
evaluation == <<fn, arg, out>>

\* the part of the state the pure functions leave alone
protocol ==
    <<conc, zone, nextId, pc, req, phase, fetched, seen, sent, ret, res,
      calls, nops, nfaults, track, ver, hist>>

ClientReturn(err, recordID, record) ==
    [err |-> err, recordID |-> recordID, record |-> record]

NoReturn == ClientReturn(NoErr, <<>>, NoRecord)

\* one backend call: what was called, whether it succeeded, and the answer
Call(action, ok, resp) == [action |-> action, ok |-> ok, answer |-> resp]

NoHist ==
    [fver |-> 0, sver |-> 0, stale |-> FALSE, clob |-> FALSE,
     interv |-> FALSE, was |-> "none", base |-> <<>>,
     created |-> {}, returned |-> NoReturn]

TrackIDs == { Itoa(i) : i \in 1..(MaxOps + 1) }

NoTrack == [st |-> "none", name |-> <<>>, type |-> <<>>, value |-> <<>>]

\* the record id a request addresses
TargetID(rq) == parseCompositeID(rq.id).recordID

\* what a completed call tells about the record it addressed
Tracked(tr, rq, result) ==
    IF result.err # NoErr THEN tr
    ELSE IF rq.op = "Create" /\ ~rq.dryRun
            /\ result.state.RecordID \in TrackIDs
    THEN [tr EXCEPT ![result.state.RecordID] =
            [st |-> "live", name |-> rq.inputs.Name,
             type |-> rq.inputs.Type, value |-> rq.inputs.Value]]
    ELSE IF rq.op = "Update" /\ TargetID(rq) \in TrackIDs
            /\ tr[TargetID(rq)].st = "live"
    THEN [tr EXCEPT ![TargetID(rq)] =
            [st |-> "live", name |-> rq.inputs.Name,
             type |-> rq.inputs.Type, value |-> rq.inputs.Value]]
    ELSE IF rq.op = "Delete" /\ TargetID(rq) \in TrackIDs
            /\ tr[TargetID(rq)].st = "live"
    THEN [tr EXCEPT ![TargetID(rq)].st = "deleted"]
    ELSE tr

\* Begin without the DryRun branch of Create
BeginNoPreview(rq) ==
    LET failures == validateDNSRecordWithFailures(rq.inputs)
        parsed == parseCompositeID(rq.id)
        invalid == Failed([kind |-> "validation",
                           msg |-> TxtValidationFailed,
                           failures |-> failures])
        go(ph) == [pc |-> "login", phase |-> ph, res |-> NoResult]
        stop(r) == [pc |-> "done", phase |-> "none", res |-> r]
    IN  IF rq.op = "Create"
        THEN IF failures # <<>> THEN stop(invalid) ELSE go("create")
        ELSE IF rq.op = "Update" /\ failures # <<>> THEN stop(invalid)
        ELSE IF ~parsed.ok
        THEN stop(Failed(Err("invalidID", TxtInvalidResourceID \o parsed.msg)))
        ELSE go(IF rq.op = "Delete" THEN "delete" ELSE "get")

\* Begin that leaves validation to Check
BeginNoValidation(rq) ==
    LET parsed == parseCompositeID(rq.id)
        go(ph) == [pc |-> "login", phase |-> ph, res |-> NoResult]
        stop(r) == [pc |-> "done", phase |-> "none", res |-> r]
    IN  IF rq.op = "Create"
        THEN IF rq.dryRun
             THEN stop(Result(NoErr,
                         createCompositeID(rq.inputs.Domain, PreviewID),
                         State(rq.inputs, PreviewID,
                               buildFQDN(rq.inputs.Name, rq.inputs.Domain))))
             ELSE go("create")
        ELSE IF ~parsed.ok
        THEN stop(Failed(Err("invalidID", TxtInvalidResourceID \o parsed.msg)))
        ELSE go(IF rq.op = "Delete" THEN "delete" ELSE "get")

\* the part of a reconciler call that precedes its first backend call:
\* where it goes on, or what it returns at once
Begin(rq) ==
    LET failures == validateDNSRecordWithFailures(rq.inputs)
        parsed == parseCompositeID(rq.id)
        invalid == Failed([kind |-> "validation",
                           msg |-> TxtValidationFailed,
                           failures |-> failures])
        go(ph) == [pc |-> "login", phase |-> ph, res |-> NoResult]
        stop(r) == [pc |-> "done", phase |-> "none", res |-> r]
    IN  CASE rq.op = "Create" ->
                IF rq.dryRun
                THEN stop(Result(NoErr,
                            createCompositeID(rq.inputs.Domain, PreviewID),
                            State(rq.inputs, PreviewID,
                                  buildFQDN(rq.inputs.Name,
                                            rq.inputs.Domain))))
                ELSE IF failures # <<>> THEN stop(invalid)
                ELSE go("create")
          [] rq.op = "Read" ->
                IF ~parsed.ok
                THEN stop(Failed(Err("invalidID",
                            TxtInvalidResourceIDFormat \o parsed.msg)))
                ELSE go("get")
          [] rq.op = "Update" ->
                IF failures # <<>> THEN stop(invalid)
                ELSE IF ~parsed.ok
                THEN stop(Failed(Err("invalidID",
                            TxtInvalidResourceID \o parsed.msg)))
                ELSE go("get")
          [] rq.op = "Delete" ->
                IF ~parsed.ok
                THEN stop(Failed(Err("invalidID",
                            TxtInvalidResourceID \o parsed.msg)))
                ELSE go("delete")

\* an Update that goes on to its write whatever its pre-check returned
ResumeWriteAnyway(rq, ph, r) ==
    LET stop(x) == [pc |-> "done", phase |-> "none", res |-> x]
    IN  CASE ph = "create" -> stop(CreateResult(rq, r.err, r.recordID))
          [] ph = "get" /\ rq.op = "Read" ->
                stop(ReadResult(rq, r.err, r.record))
          [] ph = "get" /\ rq.op = "Update" ->
                [pc |-> "login", phase |-> "write", res |-> NoResult]
          [] ph = "write" -> stop(UpdateResult(rq, r.err))
          [] ph = "delete" -> stop(DeleteResult(rq, r.err))

\* the reconciler after a client operation returned r
Resume(rq, ph, r) ==
    LET stop(x) == [pc |-> "done", phase |-> "none", res |-> x]
    IN  CASE ph = "create" -> stop(CreateResult(rq, r.err, r.recordID))
          [] ph = "get" /\ rq.op = "Read" ->
                stop(ReadResult(rq, r.err, r.record))
          [] ph = "get" /\ rq.op = "Update" ->
                IF r.err # NoErr
                THEN stop(Failed(Wrap(TxtFindExisting, r.err)))
                ELSE [pc |-> "login", phase |-> "write", res |-> NoResult]
          [] ph = "write" -> stop(UpdateResult(rq, r.err))
          [] ph = "delete" -> stop(DeleteResult(rq, r.err))

\* may one more backend call fail
MayFail == ~conc /\ nfaults < MaxFaults

Answers(faults) == {SuccessResponse} \cup (IF MayFail THEN faults ELSE {})

IsFault(resp) == resp # SuccessResponse

\* no reconciler call has been made
Idle ==
    /\ pc = [p \in Procs |-> "idle"]
    /\ req = [p \in Procs |-> Request("none", FALSE, NoArgs, <<>>)]
    /\ phase = [p \in Procs |-> "none"]
    /\ fetched = [p \in Procs |-> <<>>]
    /\ seen = [p \in Procs |-> <<>>]
    /\ sent = [p \in Procs |-> <<>>]
    /\ ret = [p \in Procs |-> NoReturn]
    /\ res = [p \in Procs |-> NoResult]
    /\ calls = [p \in Procs |-> <<>>]
    /\ nops = 0
    /\ nfaults = 0
    /\ track = [x \in TrackIDs |-> NoTrack]
    /\ ver = 0
    /\ hist = [p \in Procs |-> NoHist]

Init0 ==
    /\ zone \in InitialZones
    /\ nextId = Len(zone) + 1
    /\ Idle
    /\ fn = "none"
    /\ arg = NoArg
    /\ out = NoOut

\* one caller, one reconciler call at a time
Init == conc = FALSE /\ Init0

\* two callers that do not serialise their calls
InitConc == conc = TRUE /\ Init0

-----------------------------------------------------------------------------
(* Actions: the orchestrator's call, then one action per backend call *)

\* Create, Read, Update or Delete is called: DryRun, validation and the
\* decoding of the composite id
Start(p) ==
    /\ pc[p] \in {"idle", "done"}
    /\ nops < MaxOps
    /\ conc \/ p = 1
    /\ \E rq \in IF conc THEN ConcRequests ELSE SerialRequests :
         LET b == Begin(rq)
         IN  /\ req' = [req EXCEPT ![p] = rq]
             /\ pc' = [pc EXCEPT ![p] = b.pc]
             /\ phase' = [phase EXCEPT ![p] = b.phase]
             /\ res' = [res EXCEPT ![p] = b.res]
             /\ track' = IF b.pc = "done" THEN Tracked(track, rq, b.res)
                         ELSE track
             /\ hist' = [hist EXCEPT ![p] =
                           [NoHist EXCEPT
                              !.was = IF TargetID(rq) \in TrackIDs
                                      THEN track[TargetID(rq)].st
                                      ELSE "none",
                              !.base = zone,
                              !.created = { x \in TrackIDs :
                                              track[x].st # "none" }]]
    /\ fetched' = [fetched EXCEPT ![p] = <<>>]
    /\ seen' = [seen EXCEPT ![p] = <<>>]
    /\ sent' = [sent EXCEPT ![p] = <<>>]
    /\ ret' = [ret EXCEPT ![p] = NoReturn]
    /\ calls' = [calls EXCEPT ![p] = <<>>]
    /\ nops' = nops + 1
    /\ UNCHANGED <<conc, zone, nextId, nfaults, ver>>
    /\ UNCHANGED evaluation

\* c.login() of a client operation; on failure the operation returns at once
Login(p) ==
    /\ pc[p] = "login"
    /\ \E resp \in Answers(LoginFaults) :
         LET e == login(resp)
             r == Resume(req[p], phase[p], ClientReturn(e, <<>>, NoRecord))
         IN  /\ calls' = [calls EXCEPT ![p] = Append(@, Call("login", e = NoErr, resp))]
             /\ nfaults' = IF IsFault(resp) THEN nfaults + 1 ELSE nfaults
             /\ IF e = NoErr
                THEN /\ pc' = [pc EXCEPT ![p] = "info"]
                     /\ UNCHANGED <<phase, res, track>>
                ELSE /\ pc' = [pc EXCEPT ![p] = r.pc]
                     /\ phase' = [phase EXCEPT ![p] = r.phase]
                     /\ res' = [res EXCEPT ![p] = r.res]
                     /\ track' = Tracked(track, req[p], r.res)
             /\ hist' = [hist EXCEPT ![p].returned =
                            IF e = NoErr THEN @
                            ELSE ClientReturn(e, <<>>, NoRecord)]
    /\ UNCHANGED <<conc, zone, nextId, req, fetched, seen, sent, ret, nops,
                   ver>>
    /\ UNCHANGED evaluation

\* what a client operation does with the answer of infoDnsRecords: go on
\* to the submit with existingRecords, or return
GoOn(records) == [submit |-> TRUE, records |-> records, ret |-> NoReturn]

Leave(err, recordID, record) ==
    [submit |-> FALSE, records |-> <<>>,
     ret |-> ClientReturn(err, recordID, record)]

\* a CreateDnsRecord that submits whatever its first fetch gave
CreateFetchedIgnoreError(a) == GoOn(a.records)

\* CreateDnsRecord after its first fetch
CreateFetched(a) ==
    IF a.err # NoErr
    THEN Leave(Wrap(TxtGetExisting, a.err), <<>>, NoRecord)
    ELSE GoOn(a.records)

\* a CreateDnsRecord that gives up the search when its re-fetch fails
CreateRefetchedLenient(a, name, recordType, value, priority) ==
    LET k == ResolveIndex(a.records, name, recordType, value, priority)
    IN  IF a.err # NoErr
        THEN Leave(NoErr, <<>>, NoRecord)
        ELSE IF k # 0 THEN Leave(NoErr, a.records[k].ID, NoRecord)
        ELSE Leave(Err("noid", TxtNoRecordID), <<>>, NoRecord)

\* CreateDnsRecord after its re-fetch: the search for the new record's id
CreateRefetched(a, name, recordType, value, priority) ==
    LET k == ResolveIndex(a.records, name, recordType, value, priority)
    IN  IF a.err # NoErr
        THEN Leave(Wrap(TxtGetUpdated, a.err), <<>>, NoRecord)
        ELSE IF k # 0 THEN Leave(NoErr, a.records[k].ID, NoRecord)
        ELSE Leave(Err("noid", TxtNoRecordID), <<>>, NoRecord)

\* UpdateDnsRecord after its fetch
UpdateFetched(a, recordID) ==
    IF a.err # NoErr
    THEN Leave(Wrap(TxtGetExisting, a.err), <<>>, NoRecord)
    ELSE IF FirstWithID(a.records, recordID) = 0
    THEN Leave(Err("notfound", TxtRecordNotFound \o recordID), <<>>, NoRecord)
    ELSE GoOn(a.records)

\* DeleteDnsRecord that reports a missing record
DeleteFetchedStrict(a, recordID) ==
    IF a.err # NoErr
    THEN Leave(Wrap(TxtGetExisting, a.err), <<>>, NoRecord)
    ELSE IF FirstWithID(a.records, recordID) = 0
    THEN Leave(Err("notfound", TxtRecordNotFound \o recordID), <<>>, NoRecord)
    ELSE GoOn(a.records)

\* DeleteDnsRecord after its fetch
DeleteFetched(a, recordID) ==
    IF a.err # NoErr
    THEN Leave(Wrap(TxtGetExisting, a.err), <<>>, NoRecord)
    ELSE IF FirstWithID(a.records, recordID) = 0
    THEN Leave(NoErr, <<>>, NoRecord)
    ELSE GoOn(a.records)

\* the infoDnsRecords call: GetDnsRecordById, the fetch of existingRecords,
\* or the re-fetch of CreateDnsRecord
Info(p) ==
    /\ pc[p] \in {"info", "info2"}
    /\ \E resp \in Answers(InfoFaults) :
         LET rq == req[p]
             target == TargetID(rq)
             g == GetDnsRecordById(resp, zone, target)
             a == getAllDnsRecords(resp, zone)
             d == CASE phase[p] = "get" -> Leave(g.err, <<>>, g.record)
                    [] phase[p] = "create" /\ pc[p] = "info" ->
                          CreateFetched(a)
                    [] phase[p] = "create" /\ pc[p] = "info2" ->
                          CreateRefetched(a, rq.inputs.Name, rq.inputs.Type,
                                          rq.inputs.Value,
                                          PriorityArg(rq.inputs))
                    [] phase[p] = "write" -> UpdateFetched(a, target)
                    [] phase[p] = "delete" -> DeleteFetched(a, target)
         IN  /\ calls' = [calls EXCEPT ![p] =
                            Append(@, Call("infoDnsRecords", a.err = NoErr,
                                           resp))]
             /\ nfaults' = IF IsFault(resp) THEN nfaults + 1 ELSE nfaults
             /\ seen' = [seen EXCEPT ![p] =
                           IF a.err = NoErr THEN a.records ELSE @]
             /\ IF d.submit
                THEN /\ fetched' = [fetched EXCEPT ![p] = d.records]
                     /\ hist' = [hist EXCEPT ![p].fver = ver]
                     /\ pc' = [pc EXCEPT ![p] = "update"]
                     /\ UNCHANGED ret
                ELSE /\ ret' = [ret EXCEPT ![p] = d.ret]
                     /\ pc' = [pc EXCEPT ![p] = "logout"]
                     /\ UNCHANGED <<fetched, hist>>
    /\ UNCHANGED <<conc, zone, nextId, req, phase, sent, res, nops, track,
                   ver>>
    /\ UNCHANGED evaluation

\* a client operation that returns right after its submit
AfterSubmitReturn(ph) == "logout"

\* where a client operation goes on after its submit succeeded:
\* CreateDnsRecord fetches again, the others return
AfterSubmit(ph) == IF ph = "create" THEN "info2" ELSE "logout"

\* the set a client operation hands to updateAllDnsRecords
SubmitSet(rq, ph, existingRecords) ==
    CASE ph = "create" ->
            CreateSubmitSet(existingRecords, rq.inputs.Name, rq.inputs.Type,
                            rq.inputs.Value, PriorityArg(rq.inputs))
      [] ph = "write" ->
            UpdateSubmitSet(existingRecords, TargetID(rq), rq.inputs.Name,
                            rq.inputs.Type, rq.inputs.Value,
                            PriorityArg(rq.inputs))
      [] ph = "delete" -> DeleteSubmitSet(existingRecords, TargetID(rq))

\* the updateDnsRecords call
Update(p) ==
    /\ pc[p] = "update"
    /\ \E resp \in Answers(UpdateFaults) :
         LET set == SubmitSet(req[p], phase[p], fetched[p])
             e == updateAllDnsRecords(resp)
             applied == BackendApply(set, nextId)
             prefix == CASE phase[p] = "create" -> TxtCreateFailed
                         [] phase[p] = "write" -> TxtUpdateFailed
                         [] phase[p] = "delete" -> TxtDeleteFailed
         IN  /\ calls' = [calls EXCEPT ![p] =
                            Append(@, Call("updateDnsRecords", e = NoErr,
                                           resp))]
             /\ sent' = [sent EXCEPT ![p] = set]
             /\ nfaults' = IF IsFault(resp) THEN nfaults + 1 ELSE nfaults
             /\ IF e # NoErr
                THEN /\ ret' = [ret EXCEPT ![p] =
                                  ClientReturn(Wrap(prefix, e), <<>>, NoRecord)]
                     /\ pc' = [pc EXCEPT ![p] = "logout"]
                     /\ UNCHANGED <<zone, nextId, ver, hist>>
                ELSE /\ zone' = applied.zone
                     /\ nextId' = applied.next
                     /\ ver' = ver + 1
                     /\ hist' = [q \in Procs |->
                          IF q = p
                          THEN [hist[q] EXCEPT !.sver = ver + 1,
                                               !.stale = hist[q].fver < ver]
                          ELSE IF hist[q].sver > 0
                          THEN [hist[q] EXCEPT
                                  !.clob = @ \/ hist[p].fver < hist[q].sver,
                                  !.interv = @ \/ pc[q] = "info2"]
                          ELSE hist[q]]
                     /\ pc' = [pc EXCEPT ![p] = AfterSubmit(phase[p])]
                     /\ UNCHANGED ret
    /\ UNCHANGED <<conc, req, phase, fetched, seen, res, nops, track>>
    /\ UNCHANGED evaluation

\* a client operation that logs out only when it succeeded
LogoutOnSuccessOnly(p) ==
    /\ pc[p] = "logout"
    /\ \E resp \in Answers(LogoutFaults) :
         LET r == Resume(req[p], phase[p], ret[p])
         IN  /\ calls' = [calls EXCEPT ![p] =
                            IF ret[p].err = NoErr
                            THEN Append(@, Call("logout",
                                                makeAPICall(resp) = NoErr, resp))
                            ELSE @]
             /\ nfaults' = IF IsFault(resp) THEN nfaults + 1 ELSE nfaults
             /\ pc' = [pc EXCEPT ![p] = r.pc]
             /\ phase' = [phase EXCEPT ![p] = r.phase]
             /\ res' = [res EXCEPT ![p] = r.res]
             /\ track' = IF r.pc = "done" THEN Tracked(track, req[p], r.res)
                         ELSE track
    /\ ret' = [ret EXCEPT ![p] = NoReturn]
    /\ hist' = [hist EXCEPT ![p].returned = ret[p]]
    /\ UNCHANGED <<conc, zone, nextId, req, fetched, seen, sent, nops, ver>>
    /\ UNCHANGED evaluation

\* a reconciler that logs out of its last session only
LogoutOfLastSessionOnly(p) ==
    /\ pc[p] = "logout"
    /\ \E resp \in Answers(LogoutFaults) :
         LET r == Resume(req[p], phase[p], ret[p])
         IN  /\ calls' = [calls EXCEPT ![p] =
                            IF r.pc = "done"
                            THEN Append(@, Call("logout",
                                                makeAPICall(resp) = NoErr, resp))
                            ELSE @]
             /\ nfaults' = IF IsFault(resp) THEN nfaults + 1 ELSE nfaults
             /\ pc' = [pc EXCEPT ![p] = r.pc]
             /\ phase' = [phase EXCEPT ![p] = r.phase]
             /\ res' = [res EXCEPT ![p] = r.res]
             /\ track' = IF r.pc = "done" THEN Tracked(track, req[p], r.res)
                         ELSE track
    /\ ret' = [ret EXCEPT ![p] = NoReturn]
    /\ hist' = [hist EXCEPT ![p].returned = ret[p]]
    /\ UNCHANGED <<conc, zone, nextId, req, fetched, seen, sent, nops, ver>>
    /\ UNCHANGED evaluation

\* a client operation that returns the error of its logout when it has no
\* other error to return
LogoutEscalates(p) ==
    /\ pc[p] = "logout"
    /\ \E resp \in Answers(LogoutFaults) :
         LET x == IF makeAPICall(resp) # NoErr /\ ret[p].err = NoErr
                  THEN ClientReturn(makeAPICall(resp), <<>>, NoRecord)
                  ELSE ret[p]
             r == Resume(req[p], phase[p], x)
         IN  /\ calls' = [calls EXCEPT ![p] =
                            Append(@, Call("logout",
                                           makeAPICall(resp) = NoErr, resp))]
             /\ nfaults' = IF IsFault(resp) THEN nfaults + 1 ELSE nfaults
             /\ pc' = [pc EXCEPT ![p] = r.pc]
             /\ phase' = [phase EXCEPT ![p] = r.phase]
             /\ res' = [res EXCEPT ![p] = r.res]
             /\ track' = IF r.pc = "done" THEN Tracked(track, req[p], r.res)
                         ELSE track
             /\ hist' = [hist EXCEPT ![p].returned = x]
    /\ ret' = [ret EXCEPT ![p] = NoReturn]
    /\ UNCHANGED <<conc, zone, nextId, req, fetched, seen, sent, nops, ver>>
    /\ UNCHANGED evaluation

\* the deferred c.logout(sessionID): its error is dropped, the client
\* operation returns and the reconciler goes on
Logout(p) ==
    /\ pc[p] = "logout"
    /\ \E resp \in Answers(LogoutFaults) :
         LET r == Resume(req[p], phase[p], ret[p])
         IN  /\ calls' = [calls EXCEPT ![p] =
                            Append(@, Call("logout",
                                           makeAPICall(resp) = NoErr, resp))]
             /\ nfaults' = IF IsFault(resp) THEN nfaults + 1 ELSE nfaults
             /\ pc' = [pc EXCEPT ![p] = r.pc]
             /\ phase' = [phase EXCEPT ![p] = r.phase]
             /\ res' = [res EXCEPT ![p] = r.res]
             /\ track' = IF r.pc = "done" THEN Tracked(track, req[p], r.res)
                         ELSE track
    /\ ret' = [ret EXCEPT ![p] = NoReturn]
    /\ hist' = [hist EXCEPT ![p].returned = ret[p]]
    /\ UNCHANGED <<conc, zone, nextId, req, fetched, seen, sent, nops, ver>>
    /\ UNCHANGED evaluation

Next ==
    \E p \in Procs : Start(p) \/ Login(p) \/ Info(p) \/ Update(p) \/ Logout(p)

Spec == Init /\ [][Next]_vars

SpecConc == InitConc /\ [][Next]_vars


-----------------------------------------------------------------------------
(* The pure functions of the reconciler, each applied to one argument *)

\* no backend, no reconciler call: one argument is drawn
InitPure ==
    /\ conc = FALSE
    /\ zone = <<>>
    /\ nextId = 1
    /\ Idle
    /\ fn = "none"
    /\ arg \in Applications \cup Resolutions \cup Exchanges \cup Reruns \cup Operations
    /\ out = NoOut

Returned(f, val) ==
    /\ fn' = f
    /\ out' = [of |-> f, val |-> val]
    /\ UNCHANGED arg
    /\ UNCHANGED protocol

\* createCompositeID(domain, recordID), as Create and GetID call it
EncodeID ==
    /\ fn = "none"
    /\ arg.for = "createCompositeID"
    /\ Returned("createCompositeID",
                createCompositeID(arg.domain, arg.recordID))

\* parseCompositeID(req.ID), as Read, Update and Delete call it: on an id
\* the orchestrator hands in, or on the one createCompositeID returned
DecodeID ==
    \/ /\ fn = "none"
       /\ arg.for = "parseCompositeID"
       /\ Returned("parseCompositeID", parseCompositeID(arg.compositeID))
    \/ /\ fn = "createCompositeID"
       /\ Returned("parseCompositeID", parseCompositeID(out.val))

\* validateDNSRecordWithFailures(input), as Create and Update call it
Validate ==
    /\ fn = "none"
    /\ arg.for = "validateDNSRecordWithFailures"
    /\ Returned("validateDNSRecordWithFailures",
                validateDNSRecordWithFailures(arg.args))

\* DNSRecord.Check
CheckInputs ==
    /\ fn = "none"
    /\ arg.for = "Check"
    /\ Returned("Check", Check(arg.args))

\* DNSRecord.Diff
DiffState ==
    /\ fn = "none"
    /\ arg.for = "Diff"
    /\ Returned("Diff", Diff(arg.inputs, arg.state))

\* buildFQDN(name, domain)
BuildName ==
    /\ fn = "none"
    /\ arg.for = "buildFQDN"
    /\ Returned("buildFQDN", buildFQDN(arg.name, arg.domain))

\* the end of CreateDnsRecord and of Create: the second fetch succeeded,
\* the id of the new record is looked up and the state is built
ResolveID ==
    /\ fn = "none"
    /\ arg.for = "CreateDnsRecord"
    /\ LET a == arg.inputs
           r == CreateRefetched([err |-> NoErr, records |-> arg.updatedRecords],
                                a.Name, a.Type, a.Value, PriorityArg(a)).ret
       IN  Returned("CreateDnsRecord",
                    [err |-> r.err, recordID |-> r.recordID,
                     res |-> CreateResult(Request("Create", FALSE, a, <<>>),
                                          r.err, r.recordID)])

\* updateAllDnsRecords with the answer of the backend
SubmitAnswered ==
    /\ fn = "none"
    /\ arg.for = "updateAllDnsRecords"
    /\ Returned("updateAllDnsRecords", updateAllDnsRecords(arg.resp))

\* getAllDnsRecords with the answer of the backend
FetchAnswered ==
    /\ fn = "none"
    /\ arg.for = "getAllDnsRecords"
    /\ Returned("getAllDnsRecords", getAllDnsRecords(arg.resp, arg.wire))

\* Create with every backend call succeeding, then Read of the id Create
\* returned on the zone Create left, then Diff of the inputs of Create
\* against the state Read returned
Rerun ==
    /\ fn = "none"
    /\ arg.for = "Create, Read, Diff"
    /\ LET x == arg.inputs
           existingRecords == getAllDnsRecords(SuccessResponse, arg.wire).records
           set == CreateSubmitSet(existingRecords, x.Name, x.Type, x.Value,
                                  PriorityArg(x))
           applied == BackendApply(set, Len(arg.wire) + 1)
           c == CreateRefetched(getAllDnsRecords(SuccessResponse, applied.zone),
                                x.Name, x.Type, x.Value, PriorityArg(x)).ret
           created == CreateResult(Request("Create", FALSE, x, <<>>),
                                   c.err, c.recordID)
           rq == Request("Read", FALSE, NoArgs, created.ID)
           g == GetDnsRecordById(SuccessResponse, applied.zone, TargetID(rq))
           read == ReadResult(rq, g.err, g.record)
       IN  Returned("Create, Read, Diff",
                    [created |-> created, read |-> read,
                     diff |-> Diff(x, read.state)])

\* the domain whose zone the client is asked for: the domain of the inputs
\* in Create, the domain parsed from the id in Read and Update
CallDomain(rq) ==
    IF rq.op = "Create" THEN rq.inputs.Domain
    ELSE parseCompositeID(rq.id).domain

\* Create, Read or Update run to its return when the zone of that domain
\* is arg.wire and the backend answers every call with success
Operate ==
    /\ fn = "none"
    /\ arg.for = "operation"
    /\ LET rq == arg.req
           b == Begin(rq)
           existingRecords == getAllDnsRecords(SuccessResponse, arg.wire)
           created ==
               LET f == CreateFetched(existingRecords)
                   applied == BackendApply(SubmitSet(rq, "create", f.records),
                                           Len(arg.wire) + 1)
                   c == CreateRefetched(
                            getAllDnsRecords(SuccessResponse, applied.zone),
                            rq.inputs.Name, rq.inputs.Type, rq.inputs.Value,
                            PriorityArg(rq.inputs))
               IN  Resume(rq, "create",
                          IF f.submit THEN c.ret ELSE f.ret).res
           found ==
               LET g == GetDnsRecordById(SuccessResponse, arg.wire,
                                         TargetID(rq))
                   r == Resume(rq, "get",
                               ClientReturn(g.err, <<>>, g.record))
                   u == UpdateFetched(existingRecords, TargetID(rq))
               IN  IF r.pc = "done" THEN r.res
                   ELSE Resume(rq, "write", u.ret).res
       IN  Returned(rq.op, IF b.pc = "done" THEN b.res
                           ELSE IF b.phase = "create" THEN created
                           ELSE found)

NextPure ==
    \/ EncodeID \/ DecodeID \/ Validate \/ CheckInputs \/ DiffState
    \/ BuildName \/ ResolveID \/ SubmitAnswered \/ FetchAnswered \/ Rerun \/ Operate

SpecPure == InitPure /\ [][NextPure]_vars
-----------------------------------------------------------------------------
(* Vocabulary of the properties *)

Done(p) == pc[p] = "done"

Issued(p, action) == \E i \in 1..Len(calls[p]) : calls[p][i].action = action

\* the reconciler call of p got through login and through its latest
\* infoDnsRecords
LastFetchOk(p) ==
    \E i \in 1..Len(calls[p]) :
        /\ calls[p][i].action = "infoDnsRecords"
        /\ calls[p][i].ok
        /\ \A j \in (i + 1)..Len(calls[p]) :
              calls[p][j].action # "infoDnsRecords"

\* no element of the latest fetched set carries the addressed record id
TargetMissing(p) ==
    \A i \in 1..Len(seen[p]) : seen[p][i].ID # TargetID(req[p])

\* fqdn as the data model derives it
ExpectedFQDN(name, domain) ==
    IF name \in { <<"@">>, <<>> } THEN domain ELSE name \o <<".">> \o domain

\* the data-model invariant of a desired record is violated
Violates(args) ==
    \/ args.Type \notin ValidTypes
    \/ args.Domain = <<>>
    \/ args.Name = <<>>
    \/ args.Value = <<>>
    \/ /\ args.Type \in { <<"M","X">>, <<"S","R","V">> }
       /\ (~args.Priority.present \/ args.Priority.val = <<>>)
    \/ args.Type = <<"C","N","A","M","E">> /\ args.Name = <<"@">>

\* a non-dry-run Create whose login, first fetch, submit and re-fetch
\* all succeeded, and that has returned
CreateRan(p) ==
    /\ Done(p)
    /\ req[p].op = "Create"
    /\ ~req[p].dryRun
    /\ Len(calls[p]) = 5
    /\ \A i \in 1..4 : calls[p][i].ok
    /\ calls[p][3].action = "updateDnsRecords"

\* re-fetched records with an id that carry the submitted hostname, type
\* and destination
PlainMatches(p) ==
    { i \in 1..Len(seen[p]) :
        /\ seen[p][i].Hostname = req[p].inputs.Name
        /\ seen[p][i].Type = req[p].inputs.Type
        /\ seen[p][i].Destination = req[p].inputs.Value
        /\ seen[p][i].ID # <<>> }

\* those of them that, for an MX record, also carry the submitted priority
PriorityMatches(p) ==
    { i \in PlainMatches(p) :
        req[p].inputs.Type = <<"M","X">> =>
            /\ req[p].inputs.Priority.present
            /\ seen[p][i].Priority = req[p].inputs.Priority.val }

\* the state a Create returns carries the given inputs, the derived fqdn
\* and the composite id of its record id
CreatedStateFor(p) ==
    /\ res[p].state.Domain = req[p].inputs.Domain
    /\ res[p].state.Name = req[p].inputs.Name
    /\ res[p].state.Type = req[p].inputs.Type
    /\ res[p].state.Value = req[p].inputs.Value
    /\ res[p].state.Priority = req[p].inputs.Priority
    /\ res[p].state.RecordID # <<>>
    /\ res[p].state.FQDN
         = ExpectedFQDN(req[p].inputs.Name, req[p].inputs.Domain)
    /\ res[p].ID = req[p].inputs.Domain \o <<":">> \o res[p].state.RecordID

-----------------------------------------------------------------------------
(* Properties *)

\* C1, as stated: a Create whose calls all succeed and whose re-fetched set
\* holds a record with the submitted hostname, type and destination and an
\* id returns no error and that record's id
C1_CreateResolvesPlainMatch ==
    \A p \in Procs :
        (CreateRan(p) /\ PlainMatches(p) # {}) =>
            /\ res[p].err = NoErr
            /\ \E i \in PlainMatches(p) :
                  res[p].state.RecordID = seen[p][i].ID
            /\ CreatedStateFor(p)

\* C1, amended: a Create whose calls all succeed and whose re-fetched set
\* holds a record with the submitted hostname, type, destination and, for
\* MX, priority, and an id, returns no error, the id of the first such
\* record, the given inputs, fqdn = buildFQDN(name, domain) and the resource
\* ID domain:recordID
C1_CreateResolvesFirstMatch ==
    \A p \in Procs :
        (CreateRan(p) /\ PriorityMatches(p) # {}) =>
            /\ res[p].err = NoErr
            /\ \E i \in PriorityMatches(p) :
                  /\ \A j \in PriorityMatches(p) : i <= j
                  /\ res[p].state.RecordID = seen[p][i].ID
            /\ CreatedStateFor(p)

\* a Create has returned the id of the first of two matching records
C1_Witness ==
    \E p \in Procs :
        /\ CreateRan(p)
        /\ Cardinality(PriorityMatches(p)) >= 2
        /\ res[p].err = NoErr

C3_UpdateDryRunNoCalls ==
    \A p \in Procs :
        (req[p].op = "Update" /\ req[p].dryRun) => calls[p] = <<>>

\* C4: a Read whose fetch succeeds and whose record id is in no element of
\* the fetched set returns the empty response without error and issues no
\* updateDnsRecords
C4_ReadAbsent ==
    \A p \in Procs :
        (/\ Done(p)
         /\ req[p].op = "Read"
         /\ LastFetchOk(p)
         /\ TargetMissing(p)) =>
            /\ res[p] = NoResult
            /\ ~Issued(p, "updateDnsRecords")

\* a Read has fetched a non-empty set without the record id it asked for
C4_Witness ==
    \E p \in Procs :
        /\ Done(p)
        /\ req[p].op = "Read"
        /\ LastFetchOk(p)
        /\ seen[p] # <<>>
        /\ TargetMissing(p)

\* C5: a Read whose login or infoDnsRecords call failed returns an error
C5_ReadFailureIsError ==
    \A p \in Procs :
        (/\ Done(p)
         /\ req[p].op = "Read"
         /\ \E i \in 1..Len(calls[p]) :
               /\ calls[p][i].action \in {"login", "infoDnsRecords"}
               /\ ~calls[p][i].ok) =>
            res[p].err # NoErr

\* C6: an Update whose record id is in no element of the fetched set returns
\* a record-not-found error and issues no updateDnsRecords
C6_UpdateAbsent ==
    \A p \in Procs :
        (/\ Done(p)
         /\ req[p].op = "Update"
         /\ LastFetchOk(p)
         /\ TargetMissing(p)) =>
            /\ res[p].err # NoErr
            /\ Contains(res[p].err.msg,
                        TxtRecordNotFound \o TargetID(req[p]))
            /\ ~Issued(p, "updateDnsRecords")

\* an Update has found its record id missing from the fetched set
C6_Witness ==
    \E p \in Procs :
        /\ Done(p)
        /\ req[p].op = "Update"
        /\ LastFetchOk(p)
        /\ TargetMissing(p)

\* C7: a Delete whose record id is in no element of the fetched set returns
\* success and issues no updateDnsRecords
C7_DeleteAbsent ==
    \A p \in Procs :
        (/\ Done(p)
         /\ req[p].op = "Delete"
         /\ LastFetchOk(p)
         /\ TargetMissing(p)) =>
            /\ res[p].err = NoErr
            /\ ~Issued(p, "updateDnsRecords")

\* a Delete has found its record id missing from a non-empty fetched set
C7_Witness ==
    \E p \in Procs :
        /\ Done(p)
        /\ req[p].op = "Delete"
        /\ LastFetchOk(p)
        /\ seen[p] # <<>>
        /\ TargetMissing(p)

\* C10: a non-dry-run Create or an Update whose inputs violate the data
\* model returns a validation error and issues no backend call
C10_ValidationLocal ==
    \A p \in Procs :
        (/\ \/ req[p].op = "Create" /\ ~req[p].dryRun
            \/ req[p].op = "Update"
         /\ Violates(req[p].inputs)) =>
            /\ calls[p] = <<>>
            /\ Done(p)
            /\ res[p].err.kind = "validation"

\* an Update with an MX record without priority has been turned down
C10_Witness ==
    \E p \in Procs :
        /\ Done(p)
        /\ req[p].op = "Update"
        /\ Violates(req[p].inputs)
        /\ res[p].err.kind = "validation"

\* the calls of the reconciler call of p that are not logouts all succeeded
CallsOk(p) ==
    \A i \in 1..Len(calls[p]) :
        calls[p][i].action # "logout" => calls[p][i].ok

\* C8: among serialised calls, a Read of an id that a Create returned and no
\* Delete has removed since reports the record present with the name, type
\* and value last created or updated; after the Delete a Read reports it
\* absent and a further Delete succeeds without writing
C8_Lifecycle ==
    \A p \in Procs :
        (Done(p) /\ ~conc) =>
            /\ (/\ req[p].op = "Read"
                /\ hist[p].was = "live"
                /\ res[p].err = NoErr) =>
                   /\ res[p].ID = req[p].id
                   /\ res[p].state.RecordID = TargetID(req[p])
                   /\ res[p].state.Name = track[TargetID(req[p])].name
                   /\ res[p].state.Type = track[TargetID(req[p])].type
                   /\ res[p].state.Value = track[TargetID(req[p])].value
            /\ (/\ req[p].op = "Read"
                /\ hist[p].was = "deleted"
                /\ res[p].err = NoErr) =>
                   res[p] = NoResult
            /\ (/\ req[p].op = "Delete"
                /\ hist[p].was = "deleted"
                /\ CallsOk(p)) =>
                   /\ res[p].err = NoErr
                   /\ ~Issued(p, "updateDnsRecords")

\* the stored form of a fetched record
SameRecord(w, r) ==
    /\ w.id = r.ID
    /\ w.hostname = r.Hostname
    /\ w.type = r.Type
    /\ w.destination = r.Destination
    /\ w.priority = r.Priority

\* while the submit of p is the latest one, the zone is the set p fetched
\* with only the change of p: what others wrote after that fetch is gone
StaleFetchWins ==
    \A p \in Procs :
        (hist[p].sver > 0 /\ hist[p].sver = ver) =>
            CASE req[p].op = "Create" ->
                    /\ Len(zone) = Len(fetched[p]) + 1
                    /\ \A i \in 1..Len(fetched[p]) :
                          SameRecord(zone[i], fetched[p][i])
                    /\ zone[Len(zone)].hostname = req[p].inputs.Name
                    /\ zone[Len(zone)].destination = req[p].inputs.Value
              [] req[p].op = "Update" ->
                    /\ Len(zone) = Len(fetched[p])
                    /\ \A i \in 1..Len(fetched[p]) :
                          IF fetched[p][i].ID = TargetID(req[p])
                          THEN /\ zone[i].id = TargetID(req[p])
                               /\ zone[i].destination = req[p].inputs.Value
                          ELSE SameRecord(zone[i], fetched[p][i])
              [] req[p].op = "Delete" ->
                    /\ Len(zone) = Len(fetched[p]) - 1
                    /\ \A i \in 1..Len(fetched[p]) :
                          fetched[p][i].ID # TargetID(req[p]) =>
                             \E k \in 1..Len(zone) :
                                SameRecord(zone[k], fetched[p][i])

-----------------------------------------------------------------------------
(* Properties of the pure functions *)

Separators(s) == { i \in 1..Len(s) : s[i] = ":" }

\* createCompositeID has been applied to its argument and parseCompositeID
\* to what it returned
RoundTripped ==
    /\ fn = "parseCompositeID"
    /\ arg.for = "createCompositeID"

RoundTripExact ==
    /\ out.val.ok
    /\ out.val.domain = arg.domain
    /\ out.val.recordID = arg.recordID

\* C11, as stated: for every non-empty domain and non-empty recordID,
\* parseCompositeID(createCompositeID(domain, recordID)) succeeds and
\* returns exactly (domain, recordID)
C11_RoundTripAnyParts ==
    (RoundTripped /\ arg.domain # <<>> /\ arg.recordID # <<>>)
        => RoundTripExact

\* C11, amended: for every non-empty domain and non-empty recordID that
\* contain no ':', parseCompositeID(createCompositeID(domain, recordID))
\* succeeds and returns exactly (domain, recordID)
C11_RoundTrip ==
    (/\ RoundTripped
     /\ arg.domain # <<>> /\ Separators(arg.domain) = {}
     /\ arg.recordID # <<>> /\ Separators(arg.recordID) = {})
        => RoundTripExact

\* a composite id built from two non-empty parts without ':' was parsed back
C11_Witness ==
    /\ RoundTripped
    /\ arg.domain # <<>> /\ Separators(arg.domain) = {}
    /\ arg.recordID # <<>> /\ Separators(arg.recordID) = {}
    /\ out.val.ok

\* C12: parseCompositeID fails with an invalid-identifier error unless the
\* string holds exactly one ':' and both the part before it and the part
\* after it are non-empty
C12_ParseRejectsMalformed ==
    (fn = "parseCompositeID" /\ arg.for = "parseCompositeID") =>
        LET s == arg.compositeID
            wellFormed == /\ Cardinality(Separators(s)) = 1
                          /\ s[1] # ":"
                          /\ s[Len(s)] # ":"
        IN  ~wellFormed => (~out.val.ok /\ out.val.msg # <<>>)

\* how often a property is named in a list of failures
Failures(list, property) ==
    Cardinality({ i \in 1..Len(list) : list[i] = property })

\* the record type a type string names, whatever its letter case
TypeNamed(t) == ToUpper(t)

PriorityMissing(a) == ~a.Priority.present \/ a.Priority.val = <<>>

\* C13: validation returns a failure attributed to "priority" for every
\* record of type MX or SRV whose priority is absent or empty, and no
\* priority failure for a record of any other type, whatever its priority
C13_PriorityRequired ==
    (fn = "validateDNSRecordWithFailures") =>
        IF /\ TypeNamed(arg.args.Type) \in { <<"M","X">>, <<"S","R","V">> }
           /\ PriorityMissing(arg.args)
        THEN Failures(out.val, "priority") = 1
        ELSE Failures(out.val, "priority") = 0

\* an SRV record without priority was validated and the failure reported
C13_Witness ==
    /\ fn = "validateDNSRecordWithFailures"
    /\ arg.args.Type = <<"S","R","V">>
    /\ PriorityMissing(arg.args)
    /\ Failures(out.val, "priority") = 1

\* the failures Check owes for normalised inputs a, one per violated field;
\* badDomain says when the domain violates its invariant
Owed(a, badDomain, property) ==
    CASE property = "type" ->
           IF a.Type \notin ValidTypes THEN 1 ELSE 0
      [] property = "domain" ->
           IF badDomain THEN 1 ELSE 0
      [] property = "name" ->
           IF \/ a.Name = <<>>
              \/ a.Type = <<"C","N","A","M","E">> /\ a.Name = <<"@">>
           THEN 1 ELSE 0
      [] property = "value" ->
           IF a.Value = <<>> THEN 1 ELSE 0
      [] property = "priority" ->
           IF a.Type \in { <<"M","X">>, <<"S","R","V">> } /\ PriorityMissing(a)
           THEN 1 ELSE 0

Properties == { "type", "domain", "name", "value", "priority" }

Trimmed(s) == s = <<>> \/ (s[1] \notin WhiteSpace /\ s[Len(s)] \notin WhiteSpace)

\* C15: the inputs Check returns are in normal form (type trimmed and
\* uppercased, domain trimmed and lowercased, name trimmed and "@" when
\* empty, value and a present priority trimmed), the failures are those of
\* the normalised inputs, and normalising them again changes nothing
C15_CheckNormalises ==
    (fn = "Check") =>
        LET raw == arg.args
            a == out.val.Inputs
        IN  /\ a.Type = ToUpper(TrimSpace(raw.Type))
            /\ Trimmed(a.Type) /\ ToUpper(a.Type) = a.Type
            /\ a.Domain = ToLower(TrimSpace(raw.Domain))
            /\ Trimmed(a.Domain) /\ ToLower(a.Domain) = a.Domain
            /\ a.Name = IF TrimSpace(raw.Name) = <<>> THEN <<"@">>
                        ELSE TrimSpace(raw.Name)
            /\ Trimmed(a.Name) /\ a.Name # <<>>
            /\ a.Value = TrimSpace(raw.Value)
            /\ Trimmed(a.Value)
            /\ a.Priority.present = raw.Priority.present
            /\ a.Priority.val = TrimSpace(raw.Priority.val)
            /\ Trimmed(a.Priority.val)
            /\ out.val.Failures = validateDNSRecordWithFailures(a)
            /\ normalizeInputs(a) = a

\* Check has turned a padded type, a mixed-case domain and a blank name into
\* their normal forms and found nothing to report
C15_Witness ==
    /\ fn = "Check"
    /\ arg.args.Type = <<" ","M","X","\t">>
    /\ arg.args.Domain = <<" ","E",".","c"," ">>
    /\ arg.args.Name = <<" ">>
    /\ arg.args.Priority = Ptr(<<" ","1","0">>)
    /\ out.val.Inputs
         = Args(Dom, <<"@">>, TypeMX, TrimSpace(arg.args.Value),
                Ptr(<<"1","0">>))
    /\ out.val.Failures = <<>>

Differs(field) ==
    CASE field = "domain" -> arg.inputs.Domain # arg.state.Domain
      [] field = "name" -> arg.inputs.Name # arg.state.Name
      [] field = "type" -> arg.inputs.Type # arg.state.Type
      [] field = "value" -> arg.inputs.Value # arg.state.Value
      [] field = "priority" -> arg.inputs.Priority # arg.state.Priority

Reported == DOMAIN out.val.DetailedDiff

\* C16: for a valid record x and the state built from x, with
\* fqdn = buildFQDN(name, domain), Diff reports changed = false,
\* destructive = false and an empty per-field diff
C16_DiffReflexive ==
    (/\ fn = "Diff"
     /\ \A field \in Properties : ~Differs(field)
     /\ arg.state.FQDN = ExpectedFQDN(arg.inputs.Name, arg.inputs.Domain)
     /\ ~Violates(arg.inputs))
        => /\ ~out.val.HasChanges
           /\ ~out.val.DeleteBeforeReplace
           /\ Reported = {}

\* Diff was applied to an MX record with a priority and its own state
C16_Witness ==
    /\ fn = "Diff"
    /\ \A field \in Properties : ~Differs(field)
    /\ arg.state.FQDN = ExpectedFQDN(arg.inputs.Name, arg.inputs.Domain)
    /\ arg.inputs.Type = TypeMX
    /\ arg.inputs.Priority = Ptr(<<"1","0">>)
    /\ ~out.val.HasChanges

\* C17: Diff sets destructive exactly when domain, name or type differ, and
\* changed whenever domain, name, type or value differ; a difference in
\* value only or in priority only never sets destructive
C17_DiffDestructive ==
    (fn = "Diff") =>
        /\ out.val.DeleteBeforeReplace
             <=> (Differs("domain") \/ Differs("name") \/ Differs("type"))
        /\ (\E field \in {"domain", "name", "type", "value"} : Differs(field))
             => out.val.HasChanges

\* Diff saw only the value differ and reported an in-place change
C17_Witness ==
    /\ fn = "Diff"
    /\ Differs("value")
    /\ \A field \in Properties \ {"value"} : ~Differs(field)
    /\ out.val.HasChanges
    /\ ~out.val.DeleteBeforeReplace

\* one priority is absent and the other is "0"
NilAgainstZero ==
    \/ ~arg.inputs.Priority.present /\ arg.state.Priority = Ptr(<<"0">>)
    \/ arg.inputs.Priority = Ptr(<<"0">>) /\ ~arg.state.Priority.present

\* C18: in Diff, an absent priority and priority "0" compare as equal for a
\* type other than MX and SRV (no priority entry), and as unequal for MX
\* and SRV (priority entry, changed = true)
C18_DiffPriorityNormalised ==
    (fn = "Diff" /\ NilAgainstZero) =>
        IF arg.inputs.Type \in { <<"M","X">>, <<"S","R","V">> }
        THEN "priority" \in Reported /\ out.val.HasChanges
        ELSE /\ "priority" \notin Reported
             /\ (\A field \in Properties \ {"priority"} : ~Differs(field))
                   => ~out.val.HasChanges

\* Diff compared an absent priority with "0" on an SRV record
C18_Witness ==
    /\ fn = "Diff"
    /\ NilAgainstZero
    /\ arg.inputs.Type = <<"S","R","V">>
    /\ "priority" \in Reported

\* C19: in Diff a stored fqdn other than buildFQDN(inputs.name,
\* inputs.domain) only adds the output-only entry "fqdn": changed holds only
\* with an entry of an input, destructive only with a replaced input, and
\* inputs equal to the state in every input field yield changed = false and
\* destructive = false
C19_DiffFQDNOutputOnly ==
    (/\ fn = "Diff"
     /\ arg.state.FQDN # ExpectedFQDN(arg.inputs.Name, arg.inputs.Domain))
        => /\ "fqdn" \in Reported
           /\ ~out.val.DetailedDiff["fqdn"].InputDiff
           /\ out.val.HasChanges => Reported # {"fqdn"}
           /\ out.val.DeleteBeforeReplace =>
                \E k \in Reported :
                    out.val.DetailedDiff[k].Kind = "UpdateReplace"
           /\ (\A field \in Properties : ~Differs(field)) =>
                /\ ~out.val.HasChanges
                /\ ~out.val.DeleteBeforeReplace

\* Diff saw nothing but a stale stored fqdn
C19_Witness ==
    /\ fn = "Diff"
    /\ arg.state.FQDN # ExpectedFQDN(arg.inputs.Name, arg.inputs.Domain)
    /\ \A field \in Properties : ~Differs(field)
    /\ Reported = {"fqdn"}

\* C20: buildFQDN(name, domain) returns domain when name is "@" or empty,
\* and name + "." + domain for every other name, multi-label names included
C20_BuildFQDN ==
    (fn = "buildFQDN") =>
        IF arg.name = <<"@">> \/ Len(arg.name) = 0
        THEN out.val = arg.domain
        ELSE /\ Len(out.val) = Len(arg.name) + 1 + Len(arg.domain)
             /\ SubSeq(out.val, 1, Len(arg.name)) = arg.name
             /\ out.val[Len(arg.name) + 1] = "."
             /\ SubSeq(out.val, Len(arg.name) + 2, Len(out.val)) = arg.domain

\* buildFQDN was applied to the apex name and returned the bare domain
C20_Witness ==
    /\ fn = "buildFQDN"
    /\ arg.name = <<"@">>
    /\ arg.domain = Dom
    /\ out.val = Dom

-----------------------------------------------------------------------------
(* Properties of the session and of the fetch-modify-submit protocol *)

IsCall(p, i, action) == calls[p][i].action = action

\* the logouts issued in the session that the login at position i opened
LogoutsOf(p, i) ==
    { j \in (i + 1)..Len(calls[p]) :
        /\ IsCall(p, j, "logout")
        /\ \A k \in (i + 1)..j : ~IsCall(p, k, "login") }

\* the client operation that logged in at position i has returned
OperationReturned(p, i) ==
    \/ Done(p)
    \/ \E k \in (i + 1)..Len(calls[p]) : IsCall(p, k, "login")

\* C21: once the login of a client operation has succeeded, exactly one
\* logout of that session is issued before the operation returns, on every
\* return path
C21_LogoutOnEveryPath ==
    \A p \in Procs :
        \A i \in 1..Len(calls[p]) :
            (IsCall(p, i, "login") /\ calls[p][i].ok) =>
                /\ Cardinality(LogoutsOf(p, i)) <= 1
                /\ OperationReturned(p, i) => Cardinality(LogoutsOf(p, i)) = 1

\* a client operation whose submit failed has logged out and returned
C21_Witness ==
    \E p \in Procs :
        /\ Done(p)
        /\ \E i \in 1..Len(calls[p]) :
              /\ IsCall(p, i, "updateDnsRecords")
              /\ ~calls[p][i].ok
        /\ IsCall(p, Len(calls[p]), "logout")

Actions(p) == [i \in 1..Len(calls[p]) |-> calls[p][i].action]

\* a non-dry-run Create that reached the backend has returned
CreateReturned(p) ==
    /\ Done(p)
    /\ req[p].op = "Create"
    /\ ~req[p].dryRun
    /\ Len(calls[p]) > 0

\* hostname, type and destination are the submitted ones
AgreesWithInputs(r, a) ==
    /\ r.Hostname = a.Name
    /\ r.Type = a.Type
    /\ r.Destination = a.Value

\* C22: a non-dry-run Create on which every backend call succeeds issues
\* login, infoDnsRecords, updateDnsRecords, infoDnsRecords, logout, in this
\* order and once each, and the id it returns is the id of a record of the
\* second fetch
C22_CreateCallOrder ==
    \A p \in Procs :
        (CreateReturned(p) /\ \A i \in 1..Len(calls[p]) : calls[p][i].ok) =>
            /\ Actions(p) = <<"login", "infoDnsRecords", "updateDnsRecords",
                              "infoDnsRecords", "logout">>
            /\ res[p].err = NoErr =>
                 \E i \in 1..Len(seen[p]) :
                     /\ seen[p][i].ID = res[p].state.RecordID
                     /\ AgreesWithInputs(seen[p][i], req[p].inputs)

\* a Create on a zone that held a record returned an id that only the
\* second fetch shows
C22_Witness ==
    \E p \in Procs :
        /\ CreateReturned(p)
        /\ \A i \in 1..Len(calls[p]) : calls[p][i].ok
        /\ res[p].err = NoErr
        /\ fetched[p] # <<>>
        /\ \A i \in 1..Len(fetched[p]) :
              fetched[p][i].ID # res[p].state.RecordID

\* process p has handed a set to updateDnsRecords
Submitted(p) == Issued(p, "updateDnsRecords")

\* position of the record a write of p is aimed at in the set it fetched
TargetIndex(p) == FirstWithID(fetched[p], TargetID(req[p]))

-----------------------------------------------------------------------------
(* The search for the id of the created record *)

\* CreateDnsRecord has searched the set of its second fetch
Resolved == fn = "CreateDnsRecord" /\ arg.for = "CreateDnsRecord"

\* MX and SRV carry a priority
PriorityBearing(t) == t \in { <<"M","X">>, <<"S","R","V">> }

\* the record equals the submitted values: hostname, type, destination
\* and, for a priority-bearing type, priority
MatchesSubmitted(r, a) ==
    /\ AgreesWithInputs(r, a)
    /\ PriorityBearing(a.Type) => r.Priority = PriorityArg(a)

\* positions of the records with an id that equal the submitted values
Candidates(records, a) ==
    { i \in 1..Len(records) :
        MatchesSubmitted(records[i], a) /\ records[i].ID # <<>> }

\* C24: after a successful create-write the record whose id is returned
\* has the submitted hostname, type and destination and, for MX and SRV,
\* the submitted priority; a record that differs in priority only is never
\* selected for an MX or SRV create
C24_ResolverComparesPriority ==
    (Resolved /\ out.val.err = NoErr) =>
        \A i \in 1..Len(arg.updatedRecords) :
            arg.updatedRecords[i].ID = out.val.recordID =>
                MatchesSubmitted(arg.updatedRecords[i], arg.inputs)

\* C25: when several records of the re-fetched set match the submitted
\* values, the id of the first of them in the returned order that has an
\* id is returned, and no error
C25_FirstMatchTaken ==
    LET records == arg.updatedRecords
        matching == { i \in 1..Len(records) :
                        MatchesSubmitted(records[i], arg.inputs) }
        with == Candidates(records, arg.inputs)
    IN  (Resolved /\ Cardinality(matching) >= 2 /\ with # {}) =>
            /\ out.val.err = NoErr
            /\ \E k \in with :
                 /\ \A j \in with : k <= j
                 /\ out.val.recordID = records[k].ID

\* C26: when the re-fetched set holds no matching record with an id, Create
\* returns an error, and a Create that returns no error never returns an
\* empty or placeholder record id
C26_NoMatchIsAnError ==
    Resolved =>
        /\ Candidates(arg.updatedRecords, arg.inputs) = {} =>
              (out.val.err # NoErr /\ out.val.res.err # NoErr)
        /\ out.val.res.err = NoErr =>
              /\ out.val.res.state.RecordID \notin { <<>>, PreviewID }
              /\ out.val.res.ID =
                   arg.inputs.Domain \o <<":">> \o out.val.res.state.RecordID


-----------------------------------------------------------------------------
(* What a Create leaves behind *)

\* a non-dry-run Create returned a state
Created(p) ==
    /\ Done(p)
    /\ req[p].op = "Create"
    /\ ~req[p].dryRun
    /\ res[p].err = NoErr

IDs(records) == { records[i].ID : i \in 1..Len(records) }

\* the set fetched before the write held a record with the submitted
\* hostname, type and destination under this id
HeldBefore(p, id) ==
    \E i \in 1..Len(fetched[p]) :
        /\ fetched[p][i].ID = id
        /\ AgreesWithInputs(fetched[p][i], req[p].inputs)

Wrote(p) ==
    \E i \in 1..Len(calls[p]) :
        calls[p][i].action = "updateDnsRecords" /\ calls[p][i].ok

\* the infoDnsRecords call that followed the accepted submit failed
RefetchFailed(p) ==
    \E i, j \in 1..Len(calls[p]) :
        /\ i < j
        /\ calls[p][i].action = "updateDnsRecords" /\ calls[p][i].ok
        /\ calls[p][j].action = "infoDnsRecords" /\ ~calls[p][j].ok

\* the re-fetch succeeded and showed no matching record with an id
RefetchedNoMatch(p) ==
    /\ Wrote(p)
    /\ LastFetchOk(p)
    /\ Candidates(seen[p], req[p].inputs) = {}

\* the zone is the one the call started on plus the submitted record
NewRecordRemains(p) ==
    LET n == Len(hist[p].base)
    IN  /\ Len(zone) = n + 1
        /\ SubSeq(zone, 1, n) = hist[p].base
        /\ zone[n + 1].hostname = req[p].inputs.Name
        /\ zone[n + 1].type = req[p].inputs.Type
        /\ zone[n + 1].destination = req[p].inputs.Value

FailedBeforeSubmit(p) ==
    \E i \in 1..Len(calls[p]) :
        /\ calls[p][i].action \in {"login", "infoDnsRecords"}
        /\ ~calls[p][i].ok
        /\ \A j \in 1..(i - 1) : calls[p][j].action # "updateDnsRecords"

\* C29: when login or the fetch of the current set fails in Create, Update
\* or Delete, the operation issues no updateDnsRecords call, returns an
\* error, and the zone is the one it started on
C29_NoWriteAfterFailedFetch ==
    \A p \in Procs :
        (req[p].op \in {"Create", "Update", "Delete"} /\ FailedBeforeSubmit(p))
            => /\ ~Issued(p, "updateDnsRecords")
               /\ zone = hist[p].base
               /\ Done(p) => res[p].err # NoErr

\* a Delete whose fetch failed has returned, on a zone that holds a record
C29_Witness ==
    \E p \in Procs :
        /\ Done(p)
        /\ req[p].op = "Delete"
        /\ Issued(p, "infoDnsRecords")
        /\ FailedBeforeSubmit(p)
        /\ zone # <<>>

-----------------------------------------------------------------------------
(* Properties of the session, of the error classification and of re-runs *)

\* the string decodes: exactly one ':' with something on either side
Decodable(s) ==
    /\ Cardinality(Separators(s)) = 1
    /\ s[1] # ":"
    /\ s[Len(s)] # ":"

\* process p is in, or has returned from, a call of one of these operations
Called(p, ops) == req[p].op \in ops /\ pc[p] # "idle"

\* C31: Read, Update and Delete called with a composite id that cannot be
\* decoded issue no backend call and return an invalid-identifier error
C31_UndecodableIDRejected ==
    \A p \in Procs :
        (Called(p, {"Read", "Update", "Delete"}) /\ ~Decodable(req[p].id)) =>
            /\ calls[p] = <<>>
            /\ Done(p)
            /\ res[p].err.kind = "invalidID"

\* sessions of p that are open after its first n backend calls
OpenSessions(p, n) ==
    Cardinality({ i \in 1..n : calls[p][i].action = "login" /\ calls[p][i].ok })
      - Cardinality({ i \in 1..n : calls[p][i].action = "logout" })

\* C32: within one reconciler call at most one backend session is in
\* flight: a login is issued only when every session the call opened before
\* has been logged out, and infoDnsRecords and updateDnsRecords are issued
\* inside the one open session
C32_OneSessionInFlight ==
    \A p \in Procs :
        \A n \in 1..Len(calls[p]) :
            /\ OpenSessions(p, n) \in {0, 1}
            /\ calls[p][n].action = "login" => OpenSessions(p, n - 1) = 0
            /\ calls[p][n].action \in {"infoDnsRecords", "updateDnsRecords"}
                  => OpenSessions(p, n - 1) = 1

\* an Update has gone through its two sessions
C32_Witness ==
    \E p \in Procs :
        /\ Done(p)
        /\ req[p].op = "Update"
        /\ Actions(p) = <<"login", "infoDnsRecords", "logout", "login",
                          "infoDnsRecords", "updateDnsRecords", "logout">>

\* the calls that do the work of a session
Working == {"login", "infoDnsRecords", "updateDnsRecords"}

\* C33: there are no internal retries: once a login, infoDnsRecords or
\* updateDnsRecords call of a reconciler call has failed, that call issues
\* no further login, infoDnsRecords or updateDnsRecords call; and every
\* reconciler call issues a bounded number of backend calls (at most the
\* seven of the two sessions of Update), each step of it being one of them
C33_NoRetries ==
    \A p \in Procs :
        /\ \A i, j \in 1..Len(calls[p]) :
              (i < j /\ calls[p][i].action \in Working /\ ~calls[p][i].ok)
                  => calls[p][j].action \notin Working
        /\ Len(calls[p]) <= 7
        /\ pc[p] \in {"idle", "login", "info", "info2", "update", "logout",
                      "done"}

\* the pre-check of an Update failed at its infoDnsRecords call and the
\* Update returned after the logout
C33_Witness ==
    \E p \in Procs :
        /\ Done(p)
        /\ req[p].op = "Update"
        /\ Len(calls[p]) = 3
        /\ calls[p][2].action = "infoDnsRecords" /\ ~calls[p][2].ok
        /\ calls[p][3].action = "logout"

\* the backend answered the call with a status other than "success"
Refused(c) == c.answer.neterr = <<>> /\ c.answer.Status # "success"

\* what a refusal of such a code is reported as
LoginClass(code) ==
    CASE code = 2011 -> "credentials"
      [] code = 2029 -> "account"
      [] code = 2057 -> "ratelimit"
      [] OTHER -> "backend"

\* C34: when login reports a non-success status, the client operation
\* returns an error classified by the status code (2011 invalid
\* credentials, 2029 account not found, 2057 rate limited, any other code
\* a generic failure carrying the code and the long message), it has
\* issued exactly one login call, and no infoDnsRecords, updateDnsRecords
\* or logout call follows
C34_LoginRefusalClassified ==
    \A p \in Procs :
        \A i \in 1..Len(calls[p]) :
            (calls[p][i].action = "login" /\ Refused(calls[p][i])) =>
                LET e == hist[p].returned.err
                    a == calls[p][i].answer
                IN  /\ i = Len(calls[p])
                    /\ i > 1 => calls[p][i - 1].action = "logout"
                    /\ pc[p] \notin {"info", "info2", "update", "logout"}
                    /\ e.kind = LoginClass(a.StatusCode)
                    /\ e.kind = "backend" =>
                          /\ Contains(e.msg, a.LongMessage)
                          /\ Contains(e.msg, Itoa(a.StatusCode))
                    /\ hist[p].returned.recordID = <<>>
                    /\ hist[p].returned.record = NoRecord

\* the second login of an Update was refused as rate limited
C34_Witness ==
    \E p \in Procs :
        /\ Len(calls[p]) = 4
        /\ calls[p][4].action = "login"
        /\ Refused(calls[p][4])
        /\ calls[p][4].answer.StatusCode = 2057
        /\ hist[p].returned.err.kind = "ratelimit"

\* the backend answered the application with a status other than "success"
AnswerRefused == arg.resp.neterr = <<>> /\ arg.resp.Status # "success"

\* what a refusal of updateDnsRecords with such a code is reported as
UpdateClass(code) ==
    CASE code = 4013 -> "format"
      [] code = 2016 -> "domain"
      [] code = 2057 -> "ratelimit"
      [] OTHER -> "backend"

\* C35: updateAllDnsRecords returns nil exactly when the backend status is
\* "success"; on any other status it returns an error classified by the
\* status code: 4013 invalid format, 2016 domain not found or inaccessible,
\* 2057 rate limited, any other code a generic failure carrying the long
\* message and the code
C35_UpdateStatusClassified ==
    (fn = "updateAllDnsRecords" /\ arg.for = "updateAllDnsRecords") =>
        /\ out.val = NoErr <=> arg.resp.Status = "success"
        /\ AnswerRefused =>
              /\ out.val.kind = UpdateClass(arg.resp.StatusCode)
              /\ out.val.kind = "format" => Contains(out.val.msg, TxtUpd4013)
              /\ out.val.kind = "domain" => Contains(out.val.msg, TxtUpd2016)
              /\ out.val.kind = "ratelimit" =>
                    Contains(out.val.msg, TxtUpd2057)
              /\ out.val.kind = "backend" =>
                    /\ Contains(out.val.msg, arg.resp.LongMessage)
                    /\ Contains(out.val.msg, Itoa(arg.resp.StatusCode))

\* updateAllDnsRecords got status "error" with the code of a success and
\* returned the generic failure
C35_Witness ==
    /\ fn = "updateAllDnsRecords" /\ arg.for = "updateAllDnsRecords"
    /\ arg.resp.Status = "error"
    /\ arg.resp.StatusCode = 2000
    /\ out.val.kind = "backend"

\* C36: getAllDnsRecords returns a record set only when the info call
\* reports status "success" and the response data is an object holding a
\* list under "dnsrecords"; a non-success status yields a backend error, any
\* other shape of the data a malformed-response error, and in both cases no
\* record set is returned
C36_FetchChecksStatusAndShape ==
    (fn = "getAllDnsRecords" /\ arg.for = "getAllDnsRecords") =>
        /\ out.val.err = NoErr <=>
              /\ arg.resp.neterr = <<>>
              /\ arg.resp.Status = "success"
              /\ arg.resp.shape = "data"
        /\ out.val.err = NoErr =>
              /\ Len(out.val.records) = Len(arg.wire)
              /\ \A i \in 1..Len(arg.wire) :
                    /\ out.val.records[i].ID = arg.wire[i].id
                    /\ out.val.records[i].Hostname = arg.wire[i].hostname
                    /\ out.val.records[i].Type = arg.wire[i].type
                    /\ out.val.records[i].Destination = arg.wire[i].destination
                    /\ out.val.records[i].Priority = arg.wire[i].priority
        /\ out.val.err # NoErr => out.val.records = <<>>
        /\ AnswerRefused =>
              /\ out.val.err.kind = "backend"
              /\ Contains(out.val.err.msg, arg.resp.LongMessage)
              /\ Contains(out.val.err.msg, Itoa(arg.resp.StatusCode))
        /\ (arg.resp.neterr = <<>> /\ arg.resp.Status = "success"
            /\ arg.resp.shape # "data") => out.val.err.kind = "malformed"

\* a successful answer without the list of records, got on a zone that
\* holds a record, was reported as malformed and gave no record set
C36_Witness ==
    /\ fn = "getAllDnsRecords" /\ arg.for = "getAllDnsRecords"
    /\ arg.resp.Status = "success"
    /\ arg.resp.shape = "nokey"
    /\ arg.wire # <<>>
    /\ out.val.err.kind = "malformed"
    /\ out.val.records = <<>>

\* the logout of p is answered in this step
LoggingOut(p) == pc[p] = "logout" /\ pc'[p] # "logout"

\* C37: a failure of the logout call is ignored: what a client operation
\* returns, value and error, is what it had to return before its logout,
\* whether the logout succeeds or fails
C37_LogoutFailureIgnored ==
    [][\A p \in Procs :
          LoggingOut(p) =>
              /\ hist'[p].returned = ret[p]
              /\ Len(calls'[p]) = Len(calls[p]) + 1
              /\ calls'[p][Len(calls'[p])].action = "logout"]_vars

\* a Create whose logout failed has returned the id of the new record
C37_Witness ==
    \E p \in Procs :
        /\ Done(p)
        /\ req[p].op = "Create"
        /\ calls[p] # <<>>
        /\ calls[p][Len(calls[p])].action = "logout"
        /\ ~calls[p][Len(calls[p])].ok
        /\ hist[p].returned.err = NoErr
        /\ hist[p].returned.recordID # <<>>
        /\ res[p].err = NoErr

\* a priority as Diff reads it: absent is the empty string
PriorityRead(ptr) == IF ptr.present THEN ptr.val ELSE <<>>

\* absent, empty and "0": no priority
NoPriority == { <<>>, <<"0">> }

\* C38: for a type that requires no priority, Diff takes absent, empty and
\* "0" for one priority and compares every other pair literally, so that
\* two different priorities not both of that class are reported as a change
\* of the priority with changed = true; for MX and SRV the comparison is
\* literal
C38_DiffPriorityLiteral ==
    (fn = "Diff" /\ arg.for = "Diff") =>
        LET in == PriorityRead(arg.inputs.Priority)
            st == PriorityRead(arg.state.Priority)
            differ == IF PriorityBearing(arg.inputs.Type)
                      THEN in # st
                      ELSE in # st /\ ~(in \in NoPriority /\ st \in NoPriority)
        IN  /\ "priority" \in Reported <=> differ
            /\ differ => out.val.HasChanges

\* a Create has been followed by a Read of the id it returned and a Diff
Reran == fn = "Create, Read, Diff" /\ arg.for = "Create, Read, Diff"

\* C39: after a successful Create with valid inputs x as Check returns
\* them, a Read of the returned composite id on the unchanged zone yields a
\* state s for which Diff(x, s) reports changed = false and destructive =
\* false, for every record type and every valid priority
C39_RerunStable ==
    (Reran /\ out.val.created.err = NoErr) =>
        /\ out.val.read.err = NoErr
        /\ out.val.read.ID = out.val.created.ID
        /\ ~out.val.diff.HasChanges
        /\ ~out.val.diff.DeleteBeforeReplace

\* Create, Read or Update has returned a state without error
Operated ==
    /\ fn \in { "Create", "Read", "Update" }
    /\ arg.for = "operation"
    /\ out.val.err = NoErr
    /\ out.val.state # NoState

\* the composite id of the resource: what Create returned, what Read and
\* Update were called with
ResourceID == IF fn = "Create" THEN out.val.ID ELSE arg.req.id

\* the parts of a decodable string before and after its ':'
PartBefore(s) == SubSeq(s, 1, (CHOOSE i \in Separators(s) : TRUE) - 1)

PartAfter(s) == SubSeq(s, (CHOOSE i \in Separators(s) : TRUE) + 1, Len(s))

IdentityHolds ==
    /\ Decodable(ResourceID)
    /\ PartBefore(ResourceID) = out.val.state.Domain
    /\ PartAfter(ResourceID) = out.val.state.RecordID
    /\ CallDomain(arg.req) = out.val.state.Domain
    /\ out.val.state.FQDN
         = ExpectedFQDN(out.val.state.Name, out.val.state.Domain)

====
